---- MODULE Spec2Model ----
(***************************************************************************)
(* Alert lifecycle of adwrng2: the reconciler                              *)
(* (registerAerodromeWarningsForIcao, lib/alerting), the REDEMET client    *)
(* (fetchRedemetAlerts, determineAlertSeverity, lib/redemet) and the       *)
(* validity sweeper (expireOutOfWindowActiveAlerts, isAlertInForce,        *)
(* lib/alerts-validity) over the alerts_history table.                     *)
(*                                                                         *)
(* Texts are kept in the state as strings; Chars gives the characters of   *)
(* each text, on which the string functions of the code work.  Time is a   *)
(* tick: tick n is the instant 2024-01-01T0n:00:00Z.                        *)
(***************************************************************************)
EXTENDS Integers, Sequences, FiniteSets, TLC

\* ------------------------------------------------------------- bounds
MaxTime == 3
MaxAlerts == 2
MaxInitRecords == 2
MaxStore == 3

\* ------------------------------------------------------------- values
Undefined == "undefined"
Null == "null"

Icaos == {"SBMQ", "SBGR"}
\* The icao argument of a call: the caller does not validate it.
CallIcaos == Icaos \cup {"SB"}

Chars ==
  [s \in {"AD WRNG SBMQ 010000/010600 TS OBSC", "AVISO", "tempestade severa",
          "sigmet", "AD WRNG SBGR TS", "(sem mensagem)", "AD WRNG", "",
          "2024-01-01 01:00:00", "2024-01-01 02:00:00",
          "2024-01-01T00:00:00Z", "2024-01-01T01:00:00Z", "2024-01-01T02:00:00Z",
          "2024-01-01T03:00:00Z", "2024-01-01T04:00:00Z", "2024-01-01T05:00:00Z",
          "Aerodromo FECHADO por tempestade", "AVISO de tempestade", "CAUTION",
          "aerodrome warning", "closed, severe turbulence, caution", "SIGMET",
          "Aviso de Aer(o_acute)dromo",
          "2024-01-01T01:00:00-03:00",
          "2024-01-01 01:00",
          "01/01/2024 01:00:00",
          "   ",
          "SBMQ SBGR AD WRNG SBSP TS",
          "sbgr SBMQ SBGR",
          "SBMQ1 ABCDE SBGR/SBMQ",
          "SBGR AD WRNG SBMQ AD WRNG SBSP",
          "SBMQ ad wrng SBGR",
          "SBMQ_A AVISO SBGR",
          " sbgr ",
          "sb1gr",
          "SBGRX",
          "SBMQ", "SBGR", "sbmq", "SB"} |->
    CASE s = "AD WRNG SBMQ 010000/010600 TS OBSC" ->
           <<"A","D"," ","W","R","N","G"," ","S","B","M","Q"," ","0","1","0","0",
             "0","0","/","0","1","0","6","0","0"," ","T","S"," ","O","B","S","C">>
      [] s = "AVISO" -> <<"A","V","I","S","O">>
      [] s = "tempestade severa" ->
           <<"t","e","m","p","e","s","t","a","d","e"," ","s","e","v","e","r","a">>
      [] s = "sigmet" -> <<"s","i","g","m","e","t">>
      [] s = "AD WRNG SBGR TS" ->
           <<"A","D"," ","W","R","N","G"," ","S","B","G","R"," ","T","S">>
      [] s = "(sem mensagem)" ->
           <<"(","s","e","m"," ","m","e","n","s","a","g","e","m",")">>
      [] s = "AD WRNG" -> <<"A","D"," ","W","R","N","G">>
      [] s = "" -> <<>>
      [] s = "2024-01-01 01:00:00" ->
           <<"2","0","2","4","-","0","1","-","0","1"," ","0","1",":","0","0",":","0","0">>
      [] s = "2024-01-01 02:00:00" ->
           <<"2","0","2","4","-","0","1","-","0","1"," ","0","2",":","0","0",":","0","0">>
      [] s = "2024-01-01T01:00:00Z" ->
           <<"2","0","2","4","-","0","1","-","0","1","T","0","1",":","0","0",":","0","0","Z">>
      [] s = "2024-01-01T02:00:00Z" ->
           <<"2","0","2","4","-","0","1","-","0","1","T","0","2",":","0","0",":","0","0","Z">>
      [] s = "2024-01-01T00:00:00Z" ->
           <<"2","0","2","4","-","0","1","-","0","1","T","0","0",":","0","0",":","0","0","Z">>
      [] s = "2024-01-01T03:00:00Z" ->
           <<"2","0","2","4","-","0","1","-","0","1","T","0","3",":","0","0",":","0","0","Z">>
      [] s = "2024-01-01T04:00:00Z" ->
           <<"2","0","2","4","-","0","1","-","0","1","T","0","4",":","0","0",":","0","0","Z">>
      [] s = "2024-01-01T05:00:00Z" ->
           <<"2","0","2","4","-","0","1","-","0","1","T","0","5",":","0","0",":","0","0","Z">>
      [] s = "Aerodromo FECHADO por tempestade" ->
           <<"A","e","r","o","d","r","o","m","o"," ","F","E","C","H","A","D","O"," ",
             "p","o","r"," ","t","e","m","p","e","s","t","a","d","e">>
      [] s = "AVISO de tempestade" ->
           <<"A","V","I","S","O"," ","d","e"," ","t","e","m","p","e","s","t","a","d",
             "e">>
      [] s = "CAUTION" ->
           <<"C","A","U","T","I","O","N">>
      [] s = "aerodrome warning" ->
           <<"a","e","r","o","d","r","o","m","e"," ","w","a","r","n","i","n","g">>
      [] s = "closed, severe turbulence, caution" ->
           <<"c","l","o","s","e","d",","," ","s","e","v","e","r","e"," ","t","u","r",
             "b","u","l","e","n","c","e",","," ","c","a","u","t","i","o","n">>
      [] s = "SIGMET" ->
           <<"S","I","G","M","E","T">>
      [] s = "Aviso de Aer(o_acute)dromo" ->
           <<"A","v","i","s","o"," ","d","e"," ","A","e","r","o_acute","d","r","o","m",
             "o">>
      [] s = "SBMQ" -> <<"S","B","M","Q">>
      [] s = "SBGR" -> <<"S","B","G","R">>
      [] s = "sbmq" -> <<"s","b","m","q">>
      [] s = "2024-01-01T01:00:00-03:00" ->
           <<"2","0","2","4","-","0","1","-","0","1","T","0","1",":","0","0",":","0","0",
             "-","0","3",":","0","0">>
      [] s = "2024-01-01 01:00" ->
           <<"2","0","2","4","-","0","1","-","0","1"," ","0","1",":","0","0">>
      [] s = "01/01/2024 01:00:00" ->
           <<"0","1","/","0","1","/","2","0","2","4"," ","0","1",":","0","0",":","0","0">>
      [] s = "   " ->
           <<" "," "," ">>
      [] s = "SBMQ SBGR AD WRNG SBSP TS" ->
           <<"S","B","M","Q"," ","S","B","G","R"," ","A","D"," ","W","R","N","G"," ","S",
             "B","S","P"," ","T","S">>
      [] s = "sbgr SBMQ SBGR" ->
           <<"s","b","g","r"," ","S","B","M","Q"," ","S","B","G","R">>
      [] s = "SBMQ1 ABCDE SBGR/SBMQ" ->
           <<"S","B","M","Q","1"," ","A","B","C","D","E"," ","S","B","G","R","/","S","B",
             "M","Q">>
      [] s = "SBGR AD WRNG SBMQ AD WRNG SBSP" ->
           <<"S","B","G","R"," ","A","D"," ","W","R","N","G"," ","S","B","M","Q"," ","A",
             "D"," ","W","R","N","G"," ","S","B","S","P">>
      [] s = "SBMQ ad wrng SBGR" ->
           <<"S","B","M","Q"," ","a","d"," ","w","r","n","g"," ","S","B","G","R">>
      [] s = "SBMQ_A AVISO SBGR" ->
           <<"S","B","M","Q","_","A"," ","A","V","I","S","O"," ","S","B","G","R">>
      [] s = " sbgr " ->
           <<" ","s","b","g","r"," ">>
      [] s = "sb1gr" ->
           <<"s","b","1","g","r">>
      [] s = "SBGRX" ->
           <<"S","B","G","R","X">>
      [] s = "SB" -> <<"S","B">>]

Texts == DOMAIN Chars

\* The text whose characters are cs (String of a character sequence).
TextOf(cs) == CHOOSE s \in Texts : Chars[s] = cs

UpperLetters ==
  <<"A","B","C","D","E","F","G","H","I","J","K","L","M",
    "N","O","P","Q","R","S","T","U","V","W","X","Y","Z">>
LowerLetters ==
  <<"a","b","c","d","e","f","g","h","i","j","k","l","m",
    "n","o","p","q","r","s","t","u","v","w","x","y","z">>
Digits == {"0","1","2","3","4","5","6","7","8","9"}

\* Characters that carry a diacritic, with their base letter (NFD's first code point).
Accented == {"a_acute", "o_acute", "a_tilde", "c_cedilla"}
BaseLetter(c) ==
  CASE c = "a_acute" -> "a" [] c = "o_acute" -> "o"
    [] c = "a_tilde" -> "a" [] c = "c_cedilla" -> "c" [] OTHER -> c

LowerChar(c) ==
  IF \E i \in 1..26 : UpperLetters[i] = c
  THEN LowerLetters[CHOOSE i \in 1..26 : UpperLetters[i] = c]
  ELSE c
UpperChar(c) ==
  IF \E i \in 1..26 : LowerLetters[i] = c
  THEN UpperLetters[CHOOSE i \in 1..26 : LowerLetters[i] = c]
  ELSE c

toLowerCase(cs) == [i \in 1..Len(cs) |-> LowerChar(cs[i])]
toUpperCase(cs) == [i \in 1..Len(cs) |-> UpperChar(cs[i])]

\* normalizeText: lower case, NFD, diacritics removed.
normalizeText(cs) == [i \in 1..Len(cs) |-> BaseLetter(LowerChar(cs[i]))]

\* String.prototype.includes
Includes(hay, needle) ==
  \E i \in 0..(Len(hay) - Len(needle)) : SubSeq(hay, i + 1, i + Len(needle)) = needle

\* a ?? b
Coalesce(a, b) == IF a \in {Undefined, Null} THEN b ELSE a
\* a || b on strings
OrElse(a, b) == IF a \in {Undefined, Null, ""} THEN b ELSE a

\* --------------------------------------------- ICAO codes of a warning text
\* \w of a regular expression without the unicode flag.
IsWordChar(c) ==
  \/ \E i \in 1..26 : UpperLetters[i] = c \/ LowerLetters[i] = c
  \/ c \in Digits
  \/ c = "_"
IsAZ(c) == \E i \in 1..26 : UpperLetters[i] = c
\* s.trim() is empty: white space only.
IsBlank(cs) == \A i \in 1..Len(cs) : cs[i] = " "
\* text.split(marker)[0]: the part before the first occurrence of the marker.
BeforeFirst(cs, marker) ==
  LET at(i) == SubSeq(cs, i, i + Len(marker) - 1) = marker
      k == CHOOSE i \in 1..Len(cs) : at(i) /\ \A j \in 1..(i - 1) : ~at(j)
  IN  SubSeq(cs, 1, k - 1)
\* The start positions of the matches of /\b[A-Z]{4}\b/g in cs.
CodePositions(cs) ==
  {p \in 1..(Len(cs) - 3) :
     /\ \A i \in p..(p + 3) : IsAZ(cs[i])
     /\ p = 1 \/ ~IsWordChar(cs[p - 1])
     /\ p + 3 = Len(cs) \/ ~IsWordChar(cs[p + 4])}
\* Array.from(new Set(codes)): each code once, at its first position.
UniqueCodes(cs, ps) ==
  LET code(p) == SubSeq(cs, p, p + 3)
      kept == {p \in ps : \A q \in ps : q < p => code(q) # code(p)}
      nth(i) == CHOOSE p \in kept : Cardinality({q \in kept : q < p}) = i - 1
  IN  [i \in 1..Cardinality(kept) |-> code(nth(i))]

\* Variant that scans the whole text, marker or not.
extractIcaosWholeText(warningText) ==
  LET text == toUpperCase(IF warningText \in {Undefined, Null} THEN <<>>
                          ELSE Chars[warningText])
  IN  IF IsBlank(text) THEN <<>> ELSE UniqueCodes(text, CodePositions(text))

\* extractIcaosFromAdWarning: the codes as character sequences.
extractIcaosFromAdWarning(warningText) ==
  LET text == toUpperCase(IF warningText \in {Undefined, Null} THEN <<>>
                          ELSE Chars[warningText])
      segment == IF Includes(text, Chars["AD WRNG"])
                 THEN BeforeFirst(text, Chars["AD WRNG"]) ELSE text
  IN  IF IsBlank(text) THEN <<>> ELSE UniqueCodes(segment, CodePositions(segment))

\* ------------------------------------------------------------- raw alerts
\* The raw alert objects the REDEMET API can list.
RawAlerts ==
  <<[mensagem |-> "AD WRNG SBMQ 010000/010600 TS OBSC", mens |-> Undefined,
     tipo |-> "AVISO",
     data_validade_ini |-> "2024-01-01 01:00:00",
     data_validade_fim |-> "2024-01-01 02:00:00",
     validade_inicial |-> Undefined, validade_final |-> Undefined],
    [mensagem |-> "tempestade severa", mens |-> Undefined, tipo |-> "sigmet",
     data_validade_ini |-> Undefined, data_validade_fim |-> Undefined,
     validade_inicial |-> Undefined, validade_final |-> Undefined],
    [mensagem |-> Undefined, mens |-> "AD WRNG SBGR TS", tipo |-> Undefined,
     data_validade_ini |-> Undefined, data_validade_fim |-> Undefined,
     validade_inicial |-> Undefined, validade_final |-> Undefined]>>

RawIds == DOMAIN RawAlerts

Kw(s) ==
  CASE s = "ad wrng" -> <<"a","d"," ","w","r","n","g">>
    [] s = "aerodrome warning" ->
         <<"a","e","r","o","d","r","o","m","e"," ","w","a","r","n","i","n","g">>
    [] s = "aerodromo" -> <<"a","e","r","o","d","r","o","m","o">>
    [] s = "aviso" -> <<"a","v","i","s","o">>
    [] s = "ad" -> <<"a","d">>
    [] s = "closed" -> <<"c","l","o","s","e","d">>
    [] s = "fechado" -> <<"f","e","c","h","a","d","o">>
    [] s = "danger" -> <<"d","a","n","g","e","r">>
    [] s = "sigmet" -> <<"s","i","g","m","e","t">>
    [] s = "thunderstorm" -> <<"t","h","u","n","d","e","r","s","t","o","r","m">>
    [] s = "tempestade" -> <<"t","e","m","p","e","s","t","a","d","e">>
    [] s = "severe" -> <<"s","e","v","e","r","e">>
    [] s = "turbulence" -> <<"t","u","r","b","u","l","e","n","c","e">>
    [] s = "caution" -> <<"c","a","u","t","i","o","n">>
    [] s = "warning" -> <<"w","a","r","n","i","n","g">>

\* ------------------------------------------------------------- classifier
\* Variant that matches on the texts as given, without normalizeText.
isAerodromeWarningRaw(alert) ==
  LET rawMsg == Coalesce(alert.mensagem, Coalesce(alert.mens, ""))
      rawTipo == Coalesce(alert.tipo, "")
      tipo == Chars[rawTipo]
      msg == Chars[rawMsg]
  IN  \/ Includes(msg, Kw("ad wrng")) \/ Includes(msg, Kw("aerodrome warning"))
      \/ Includes(tipo, Kw("aerodromo")) \/ Includes(msg, Kw("aerodromo"))
      \/ /\ Includes(tipo, Kw("aviso"))
         /\ (Includes(msg, Kw("ad")) \/ Includes(msg, Kw("aerodromo")))

isAerodromeWarning(alert) ==
  LET rawMsg == Coalesce(alert.mensagem, Coalesce(alert.mens, ""))
      rawTipo == Coalesce(alert.tipo, "")
      tipo == normalizeText(Chars[rawTipo])
      msg == normalizeText(Chars[rawMsg])
  IN  \/ Includes(msg, Kw("ad wrng")) \/ Includes(msg, Kw("aerodrome warning"))
      \/ Includes(tipo, Kw("aerodromo")) \/ Includes(msg, Kw("aerodromo"))
      \/ /\ Includes(tipo, Kw("aviso"))
         /\ (Includes(msg, Kw("ad")) \/ Includes(msg, Kw("aerodromo")))

\* Variant that tests the high tier before the critical one.
determineAlertSeverityHighFirst(alert) ==
  LET message == IF alert.mensagem \in {Undefined, Null} THEN <<>>
                 ELSE toLowerCase(Chars[alert.mensagem])
      tipo == IF alert.tipo \in {Undefined, Null} THEN <<>>
              ELSE toLowerCase(Chars[alert.tipo])
  IN  IF \/ Includes(message, Kw("thunderstorm"))
         \/ Includes(message, Kw("tempestade"))
         \/ Includes(message, Kw("severe"))
         \/ Includes(message, Kw("turbulence"))
      THEN "high"
      ELSE IF \/ Includes(message, Kw("closed")) \/ Includes(message, Kw("fechado"))
              \/ Includes(message, Kw("danger")) \/ Includes(tipo, Kw("sigmet"))
      THEN "critical"
      ELSE IF \/ Includes(message, Kw("caution")) \/ Includes(message, Kw("warning"))
              \/ Includes(message, Kw("aviso"))
      THEN "medium"
      ELSE "low"

determineAlertSeverity(alert) ==
  LET message == IF alert.mensagem \in {Undefined, Null} THEN <<>>
                 ELSE toLowerCase(Chars[alert.mensagem])
      tipo == IF alert.tipo \in {Undefined, Null} THEN <<>>
              ELSE toLowerCase(Chars[alert.tipo])
  IN  IF \/ Includes(message, Kw("closed")) \/ Includes(message, Kw("fechado"))
         \/ Includes(message, Kw("danger")) \/ Includes(tipo, Kw("sigmet"))
      THEN "critical"
      ELSE IF \/ Includes(message, Kw("thunderstorm"))
              \/ Includes(message, Kw("tempestade"))
              \/ Includes(message, Kw("severe"))
              \/ Includes(message, Kw("turbulence"))
      THEN "high"
      ELSE IF \/ Includes(message, Kw("caution")) \/ Includes(message, Kw("warning"))
              \/ Includes(message, Kw("aviso"))
      THEN "medium"
      ELSE "low"

\* /^\d{4}-\d{2}-\d{2} \d{2}:\d{2}:\d{2}$/
IsNaiveTimestamp(cs) ==
  /\ Len(cs) = 19
  /\ \A i \in 1..19 :
       CASE i \in {5, 8} -> cs[i] = "-"
         [] i = 11 -> cs[i] = " "
         [] i \in {14, 17} -> cs[i] = ":"
         [] OTHER -> cs[i] \in Digits

\* s.replace(" ", "T"): the first blank only
ReplaceFirstBlank(cs) ==
  IF \E i \in 1..Len(cs) : cs[i] = " "
  THEN LET k == CHOOSE i \in 1..Len(cs) : cs[i] = " " /\ \A j \in 1..(i - 1) : cs[j] # " "
       IN  [i \in 1..Len(cs) |-> IF i = k THEN "T" ELSE cs[i]]
  ELSE cs

\* Variant that leaves every non-empty timestamp as it is.
toIsoZUnconverted(v) == IF v \in {Undefined, Null, ""} THEN Null ELSE v

toIsoZ(v) ==
  IF v \in {Undefined, Null, ""} THEN Null
  ELSE IF IsNaiveTimestamp(Chars[v])
       THEN TextOf(ReplaceFirstBlank(Chars[v]) \o <<"Z">>)
       ELSE v
\* Date parsing of a stored timestamp ("2024-01-01THH:00:00Z"): its tick, or
\* NaN for a text of another shape.
NaN == -1
DigitValue(c) ==
  CASE c = "0" -> 0 [] c = "1" -> 1 [] c = "2" -> 2 [] c = "3" -> 3 [] c = "4" -> 4
    [] c = "5" -> 5 [] c = "6" -> 6 [] c = "7" -> 7 [] c = "8" -> 8 [] c = "9" -> 9
ParseDate(v) ==
  LET cs == Chars[v]
  IN  IF /\ Len(cs) = 20
         /\ IsNaiveTimestamp([i \in 1..19 |-> IF i = 11 THEN " " ELSE cs[i]])
         /\ cs[11] = "T" /\ cs[20] = "Z"
      THEN 10 * DigitValue(cs[12]) + DigitValue(cs[13])
      ELSE NaN

\* ------------------------------------------------------------- validity
\* Variant with an exclusive lower boundary (now <= from rejects).
isAlertInForceExclusive(alert, now) ==
  LET hasFrom == alert.valid_from \notin {Undefined, Null, ""}
      hasUntil == alert.valid_until \notin {Undefined, Null, ""}
  IN  IF hasFrom /\ ParseDate(alert.valid_from) # NaN /\ now <= ParseDate(alert.valid_from)
      THEN FALSE
      ELSE ~(hasUntil /\ ParseDate(alert.valid_until) # NaN
               /\ now > ParseDate(alert.valid_until))

isAlertInForce(alert, now) ==
  LET hasFrom == alert.valid_from \notin {Undefined, Null, ""}
      hasUntil == alert.valid_until \notin {Undefined, Null, ""}
  IN  IF hasFrom /\ ParseDate(alert.valid_from) # NaN /\ now < ParseDate(alert.valid_from)
      THEN FALSE
      ELSE IF /\ hasUntil /\ ParseDate(alert.valid_until) # NaN
              /\ now > ParseDate(alert.valid_until)
      THEN FALSE
      ELSE TRUE

\* ------------------------------------------------------------- the source
\* A JSON value of the REDEMET response: an array of raw alerts, an object
\* with a "data" member, or an object without one.
JArray(items) == [kind |-> "array", items |-> items, data |-> <<>>]
JObject(data) == [kind |-> "object", items |-> <<>>, data |-> <<data>>]
JPlain == [kind |-> "object", items |-> <<>>, data |-> <<>>]
JUndefined == [kind |-> "undefined", items |-> <<>>, data |-> <<>>]

\* v?.data
DataOf(v) == IF v.kind = "object" /\ v.data # <<>> THEN v.data[1] ELSE JUndefined
IsArray(v) == v.kind = "array"

\* Variant that also takes a payload that is the array itself.
ExtractAlertsOrBare(payload) ==
  LET d1 == DataOf(payload)
      d2 == DataOf(d1)
      d3 == DataOf(d2)
  IN  IF IsArray(payload) THEN payload.items
      ELSE IF IsArray(d1) THEN d1.items
      ELSE IF IsArray(d2) THEN d2.items
      ELSE IF IsArray(d3) THEN d3.items
      ELSE <<>>

\* The first array among payload.data, payload.data.data, payload.data.data.data.
ExtractAlerts(payload) ==
  LET d1 == DataOf(payload)
      d2 == DataOf(d1)
      d3 == DataOf(d2)
  IN  IF IsArray(d1) THEN d1.items
      ELSE IF IsArray(d2) THEN d2.items
      ELSE IF IsArray(d3) THEN d3.items
      ELSE <<>>
\* What the HTTP request of fetchRedemetAlerts can end in.
\* The response body is the list of alerts wrapped in one to three "data" members.
AlertLists == UNION {[1..n -> {1, 2}] : n \in 0..MaxAlerts}
Payloads(l) ==
  {JObject(JArray(l)), JObject(JObject(JArray(l))), JObject(JObject(JObject(JArray(l))))}
HttpOutcomes(l) ==
  {[kind |-> k, payload |-> JUndefined] : k \in {"nokey", "status", "throw"}}
    \cup {[kind |-> "json", payload |-> p] : p \in Payloads(l)}

\* Variant that repeats the request once when it throws.
FetchesOfRetryingThrow(out) ==
  IF out.kind = "nokey" THEN 0 ELSE IF out.kind = "throw" THEN 2 ELSE 1
\* The HTTP requests fetchRedemetAlerts issues: none without an API key, else one.
FetchesOf(out) == IF out.kind = "nokey" THEN 0 ELSE 1

fetchRedemetAlerts(out) ==
  IF out.kind = "nokey"
  THEN [error |-> "VITE_REDEMET_API_KEY nao configurada no .env.", data |-> JUndefined]
  ELSE IF out.kind = "status"
  THEN [error |-> "REDEMET retornou 500", data |-> JUndefined]
  ELSE IF out.kind = "throw"
  THEN [error |-> "Unknown error occurred", data |-> JUndefined]
  ELSE [error |-> Undefined, data |-> JArray(ExtractAlerts(out.payload))]

\* ------------------------------------------------------------- the store
Statuses == {"active", "expired", "archived"}

ContentOf(a) == OrElse(Coalesce(a.mensagem, Coalesce(a.mens, "")), "(sem mensagem)")
\* Variant with the one default "AVISO" for a missing and for an empty type.
AlertTypeOfAvisoDefault(a) == OrElse(a.tipo, "AVISO")
AlertTypeOf(a) == OrElse(Coalesce(a.tipo, "AD WRNG"), "AVISO")
ValidFromOf(a) == toIsoZ(Coalesce(a.data_validade_ini, a.validade_inicial))
ValidUntilOf(a) == toIsoZ(Coalesce(a.data_validade_fim, a.validade_final))
UpperIcao(icao) == TextOf(toUpperCase(Chars[icao]))

\* select id ... eq icao, status = active, alert_type, content: the matching rows
ExistingActive(st, icao, alertType, content) ==
  {i \in DOMAIN st : /\ st[i].icao = UpperIcao(icao)
                     /\ st[i].status = "active"
                     /\ st[i].alert_type = alertType
                     /\ st[i].content = content}

\* The row registerAerodromeWarningsForIcao inserts for raw alert a.
NewRecord(icao, id) ==
  LET a == RawAlerts[id]
  IN  [icao |-> UpperIcao(icao), alert_type |-> AlertTypeOf(a), content |-> ContentOf(a),
       status |-> "active",
       severity |-> determineAlertSeverity(
                      [a EXCEPT !.mensagem = ContentOf(a), !.tipo = AlertTypeOf(a)]),
       valid_from |-> ValidFromOf(a), valid_until |-> ValidUntilOf(a), raw |-> id]

\* alerts_history.icao CHECK (icao ~ '^[A-Z]{4}$')
IcaoCheck(icao) ==
  /\ Len(Chars[icao]) = 4
  /\ \A i \in 1..4 : \E k \in 1..26 : UpperLetters[k] = Chars[icao][i]

\* Variant in which the ICAO list restricts nothing.
InIcaoFilterIgnored(r, icaos) == TRUE

\* The rows a sweep update matches: status = active, the bound not null and out
\* of the window, and the icao in the list when a non-empty list is given.
InIcaoFilter(r, icaos) ==
  (icaos.given /\ Len(icaos.list) > 0) =>
    \E k \in 1..Len(icaos.list) : r.icao = UpperIcao(icaos.list[k])
\* Variant with an inclusive comparison (valid_until <= now).
MatchesUntilInclusive(r, now, icaos) ==
  /\ r.status = "active"
  /\ r.valid_until # Null /\ ParseDate(r.valid_until) <= now
  /\ InIcaoFilter(r, icaos)
MatchesUntil(r, now, icaos) ==
  /\ r.status = "active"
  /\ r.valid_until # Null /\ ParseDate(r.valid_until) < now
  /\ InIcaoFilter(r, icaos)
\* Variants of the second update's filter: one that matches no row, one without
\* the status filter.
MatchesFromSkipped(r, now, icaos) == FALSE
MatchesFromAnyStatus(r, now, icaos) ==
  /\ r.valid_from # Null /\ ParseDate(r.valid_from) > now
  /\ InIcaoFilter(r, icaos)
MatchesFrom(r, now, icaos) ==
  /\ r.status = "active"
  /\ r.valid_from # Null /\ ParseDate(r.valid_from) > now
  /\ InIcaoFilter(r, icaos)
\* Variants of the two updates with the status literals exchanged.
ExpireUntilReactivating(st, now, icaos) ==
  [i \in DOMAIN st |->
     IF /\ st[i].status = "expired"
        /\ st[i].valid_until # Null /\ ParseDate(st[i].valid_until) < now
        /\ InIcaoFilter(st[i], icaos)
     THEN [st[i] EXCEPT !.status = "active"] ELSE st[i]]
ExpireFromReactivating(st, now, icaos) ==
  [i \in DOMAIN st |->
     IF /\ st[i].status = "expired"
        /\ st[i].valid_from # Null /\ ParseDate(st[i].valid_from) > now
        /\ InIcaoFilter(st[i], icaos)
     THEN [st[i] EXCEPT !.status = "active"] ELSE st[i]]
\* Variant of the first update that tests both bounds.
ExpireUntilBothBounds(st, now, icaos) ==
  [i \in DOMAIN st |->
     IF MatchesUntil(st[i], now, icaos) \/ MatchesFrom(st[i], now, icaos)
     THEN [st[i] EXCEPT !.status = "expired"] ELSE st[i]]
\* Variant of the second update that also resets the severity.
ExpireFromResettingSeverity(st, now, icaos) ==
  [i \in DOMAIN st |->
     IF MatchesFrom(st[i], now, icaos)
     THEN [st[i] EXCEPT !.status = "expired", !.severity = "medium"] ELSE st[i]]
\* Variant of the first update that changes one matching row per run.
ExpireUntilFirstOnly(st, now, icaos) ==
  LET m == {i \in DOMAIN st : MatchesUntil(st[i], now, icaos)}
  IN  [i \in DOMAIN st |->
         IF i \in m /\ \A j \in m : i <= j
         THEN [st[i] EXCEPT !.status = "expired"] ELSE st[i]]
ExpireUntil(st, now, icaos) ==
  [i \in DOMAIN st |->
     IF MatchesUntil(st[i], now, icaos) THEN [st[i] EXCEPT !.status = "expired"] ELSE st[i]]
ExpireFrom(st, now, icaos) ==
  [i \in DOMAIN st |->
     IF MatchesFrom(st[i], now, icaos) THEN [st[i] EXCEPT !.status = "expired"] ELSE st[i]]
\* ------------------------------------------------------------- state
VARIABLES
  store,   \* alerts_history: the rows in insertion order (a row's id is its position)
  clock,   \* the wall clock, a tick
  call,    \* the registerAerodromeWarningsForIcao calls, each at its await point
  sweep,   \* the expireOutOfWindowActiveAlerts call
  posted,  \* the alerts REDEMET lists at present
  last,    \* the register call that returned last, while the source lists the same
  mode,    \* "seq": calls do not overlap; "conc": they interleave at their awaits
  probe,   \* the last isAlertInForce evaluation
  dash,    \* the Dashboard component: countdown, audio switch, alarm overlay
  ctx,     \* the ICAO context: active ICAO, input field, saved value
  limiter, \* the proxy's rateLimitMap and the time of its host
  fav      \* the handleAddFavorite call of the Settings page

vars == <<store, clock, call, sweep, posted, last, mode, probe, dash, ctx, limiter, fav>>

Calls == {1, 2}

NoResult ==
  [tag |-> "none", inserted |-> 0, alreadyActive |-> 0,
   sampleMessage |-> Undefined, error |-> Undefined]
IdleCall ==
  [pc |-> "idle", icao |-> "", items |-> <<>>, warnings |-> <<>>, pos |-> 0,
   inserted |-> 0, alreadyActive |-> 0, firstMessage |-> Undefined,
   srcError |-> Undefined, queries |-> 0, fetches |-> 0,
   result |-> NoResult, pre |-> <<>>]
NoFilter == [given |-> FALSE, list |-> <<>>]
IdleSweep ==
  [pc |-> "idle", now |-> 0, icaos |-> NoFilter, result |-> "none", error |-> Undefined,
   updates |-> 0, pre |-> <<>>]
NoLast == [some |-> FALSE, icao |-> "", adjacent |-> FALSE]
NoAlert == [mensagem |-> Undefined, mens |-> Undefined, tipo |-> Undefined]
NoProbe ==
  [made |-> FALSE, from |-> NaN, until |-> NaN, valid_from |-> Null, valid_until |-> Null,
   now |-> 0, inForce |-> TRUE,
   onAlert |-> FALSE, alert |-> NoAlert, isWarning |-> FALSE, severity |-> "",
   alertType |-> "", content |-> "",
   onTimestamp |-> FALSE, raw |-> Undefined, iso |-> Null,
   onText |-> FALSE, text |-> Undefined, codes |-> <<>>]

\* handleAddFavorite: not running.
IdleFav ==
  [pc |-> "idle", newIcao |-> "", icao |-> "", audioEnabled |-> TRUE,
   outcome |-> "none", alarm |-> FALSE, reg |-> NoResult]

\* The rows the table may hold when the calls under study begin.
SeedWindows ==
  {<<Null, Null>>, <<"2024-01-01T01:00:00Z", "2024-01-01T02:00:00Z">>}
SeedRecords ==
  {[icao |-> i, alert_type |-> "AVISO", content |-> "AD WRNG SBMQ 010000/010600 TS OBSC",
    status |-> s, severity |-> "low", valid_from |-> w[1], valid_until |-> w[2], raw |-> 1]
     : i \in Icaos, s \in Statuses, w \in SeedWindows}
  \ {r \in [icao : Icaos, alert_type : {"AVISO"},
             content : {"AD WRNG SBMQ 010000/010600 TS OBSC"},
             status : {"expired", "archived"}, severity : {"low"},
             valid_from : {Null}, valid_until : {Null}, raw : {1}] : TRUE}
TripleOf(r) == <<r.icao, r.alert_type, r.content>>
ActiveOf(st, t) == {i \in DOMAIN st : st[i].status = "active" /\ TripleOf(st[i]) = t}
AtMostOneActive(st) ==
  \A i, j \in DOMAIN st :
    (st[i].status = "active" /\ st[j].status = "active" /\ TripleOf(st[i]) = TripleOf(st[j]))
      => i = j
\* Rows are listed in one order only: the order of the rows decides nothing.
SeedRank(r) ==
  (IF r.icao = "SBMQ" THEN 0 ELSE 6)
    + (CASE r.status = "active" -> 0 [] r.status = "expired" -> 2 [] OTHER -> 4)
    + (IF r.valid_from = Null THEN 0 ELSE 1)
InitStores ==
  {st \in UNION {[1..n -> SeedRecords] : n \in 0..MaxInitRecords} :
     /\ AtMostOneActive(st)
     /\ \A i, j \in DOMAIN st : i < j => SeedRank(st[i]) <= SeedRank(st[j])}

InitCommon ==
  /\ store \in InitStores
  /\ clock = 0
  /\ call = [c \in Calls |-> IdleCall]
  /\ sweep = IdleSweep
  /\ posted \in AlertLists
  /\ last = NoLast
  /\ probe = NoProbe
  /\ fav = IdleFav

\* The components outside the specification at hand stay as constructed.
DashAside == dash = <<>>
CtxAside == ctx = <<>>
LimiterAside == limiter = <<>>
Aside == DashAside /\ CtxAside /\ LimiterAside

Init == mode = "seq" /\ InitCommon /\ Aside
InitConc == mode = "conc" /\ InitCommon /\ Len(store) <= 1 /\ Aside

NoneInFlight == sweep.pc = "idle" /\ \A c \in Calls : call[c].pc = "idle"
MayStart == mode = "conc" \/ NoneInFlight

\* ------------------------------------------------------------- time
Tick ==
  /\ clock < MaxTime
  /\ NoneInFlight
  /\ clock' = clock + 1
  /\ UNCHANGED <<store, call, sweep, posted, last, mode, probe, dash, ctx, limiter, fav>>

\* REDEMET lists other alerts from now on.
SourceChange(l) ==
  /\ l # posted
  /\ NoneInFlight
  /\ posted' = l
  /\ last' = NoLast
  /\ UNCHANGED <<store, clock, call, sweep, mode, probe, dash, ctx, limiter, fav>>

\* ------------------------------------------------------------- the reconciler
OkResult(cr) ==
  [tag |-> "ok", inserted |-> cr.inserted, alreadyActive |-> cr.alreadyActive,
   sampleMessage |-> OrElse(cr.firstMessage, Undefined), error |-> Undefined]
\* Variant that reports one fixed message whatever the error.
FailResultGeneric(msg) ==
  [tag |-> "fail", inserted |-> 0, alreadyActive |-> 0,
   sampleMessage |-> Undefined, error |-> "Unknown error occurred"]
FailResult(msg) ==
  [tag |-> "fail", inserted |-> 0, alreadyActive |-> 0,
   sampleMessage |-> Undefined, error |-> msg]

\* aerodromeWarnings = alerts.filter(isAerodromeWarning)
FilterWarnings(alerts) == SelectSeq(alerts, LAMBDA id : isAerodromeWarning(RawAlerts[id]))

\* The loop head: the next warning's existence query is issued, or the call returns.
LoopHead(cr) ==
  IF cr.pos > Len(cr.warnings)
  THEN [cr EXCEPT !.pc = "done", !.result = OkResult(cr)]
  ELSE [cr EXCEPT !.pc = "check", !.queries = @ + 1]

\* Variant that takes every alert of the returned list as a warning.
AfterFetchUnfiltered(cr, res) ==
  IF res.error # Undefined
  THEN [cr EXCEPT !.pc = "done", !.srcError = res.error, !.result = FailResult(res.error)]
  ELSE LoopHead([cr EXCEPT !.items = res.data.items, !.warnings = res.data.items,
                           !.pos = 1, !.firstMessage = Undefined])

\* After fetchRedemetAlerts has returned res.
AfterFetch(cr, res) ==
  IF res.error # Undefined
  THEN [cr EXCEPT !.pc = "done", !.srcError = res.error, !.result = FailResult(res.error)]
  ELSE LET alerts == ExtractAlerts(res.data)
           aerodromeWarnings == FilterWarnings(alerts)
           first == IF aerodromeWarnings = <<>> THEN Undefined
                    ELSE Coalesce(RawAlerts[aerodromeWarnings[1]].mensagem,
                                  RawAlerts[aerodromeWarnings[1]].mens)
       IN  LoopHead([cr EXCEPT !.items = res.data.items, !.warnings = aerodromeWarnings,
                               !.pos = 1, !.firstMessage = first])

\* After the existence query has returned.
AfterCheck(cr, st, ok) ==
  LET a == RawAlerts[cr.warnings[cr.pos]]
  IN  IF ~ok
      THEN [cr EXCEPT !.pc = "done", !.result = FailResult("existing check error")]
      ELSE IF ExistingActive(st, cr.icao, AlertTypeOf(a), ContentOf(a)) # {}
      THEN LoopHead([cr EXCEPT !.alreadyActive = @ + 1, !.pos = @ + 1])
      ELSE [cr EXCEPT !.pc = "insert", !.queries = @ + 1]

\* After the insert has returned.
AfterInsert(cr, ok) ==
  IF ~ok
  THEN [cr EXCEPT !.pc = "done", !.result = FailResult("insert error")]
  ELSE LoopHead([cr EXCEPT !.inserted = @ + 1, !.pos = @ + 1])

\* Variant in which a resumption also updates the ICAO's active rows.
StoreAfterResumeUpdating(cr, st, inserted) ==
  [i \in DOMAIN st |->
     IF st[i].icao = UpperIcao(cr.icao) /\ st[i].status = "active"
     THEN [st[i] EXCEPT !.status = "expired"] ELSE st[i]]

\* Variant that writes a row with the icao as given once the fetch has returned.
StoreAfterResumeRawIcao(cr, st, inserted) ==
  IF cr.pc = "fetch" /\ Len(st) < MaxStore
  THEN Append(st, [NewRecord(cr.icao, 1) EXCEPT !.icao = cr.icao])
  ELSE st

\* Variant that writes a row of the other ICAO once the fetch has returned.
StoreAfterResumeOtherIcao(cr, st, inserted) ==
  IF cr.pc = "fetch" /\ Len(st) < MaxStore
  THEN Append(st, NewRecord(IF UpperIcao(cr.icao) = "SBMQ" THEN "SBGR" ELSE "SBMQ", 1))
  ELSE st

\* The table after a resumption: the only write of the call is the insert.
StoreAfterResume(cr, st, inserted) ==
  IF cr.pc = "insert" /\ inserted
  THEN Append(st, NewRecord(cr.icao, cr.warnings[cr.pos]))
  ELSE st

RegisterStart(c, icao) ==
  /\ call[c].pc = "idle"
  /\ MayStart
  /\ mode = "seq" => c = 1
  /\ mode = "conc" => icao \in Icaos
  /\ call' = [call EXCEPT ![c] = [IdleCall EXCEPT !.pc = "fetch", !.icao = icao, !.pre = store]]
  /\ UNCHANGED <<store, clock, sweep, posted, last, mode, probe, dash, ctx, limiter, fav>>

\* The call resumes at its await (the fetch, the existence query, the insert) and
\* runs to its next await or to its return.
RegisterResume(c) ==
  /\ call[c].pc \in {"fetch", "check", "insert"}
  /\ IF call[c].pc = "fetch"
     THEN \E out \in HttpOutcomes(posted) :
            /\ call' = [call EXCEPT ![c] =
                          AfterFetch([call[c] EXCEPT !.fetches = FetchesOf(out)],
                                     fetchRedemetAlerts(out))]
            /\ store' = StoreAfterResume(call[c], store, FALSE)
     ELSE IF call[c].pc = "check"
     THEN \E ok \in BOOLEAN :
            /\ call' = [call EXCEPT ![c] = AfterCheck(call[c], store, ok)]
            /\ store' = StoreAfterResume(call[c], store, FALSE)
     ELSE \E ok \in BOOLEAN :
            LET done == ok /\ IcaoCheck(UpperIcao(call[c].icao))
            IN  /\ done => Len(store) < MaxStore
                /\ call' = [call EXCEPT ![c] = AfterInsert(call[c], done)]
                /\ store' = StoreAfterResume(call[c], store, done)
  /\ UNCHANGED <<clock, sweep, posted, last, mode, probe, dash, ctx, limiter, fav>>

\* The caller takes the result.
RegisterRelease(c) ==
  /\ call[c].pc = "done"
  /\ call' = [call EXCEPT ![c] = IdleCall]
  /\ last' = IF mode = "conc" THEN last
             ELSE IF call[c].result.tag = "ok"
             THEN [some |-> TRUE, icao |-> call[c].icao, adjacent |-> TRUE]
             ELSE NoLast
  /\ UNCHANGED <<store, clock, sweep, posted, mode, probe, dash, ctx, limiter, fav>>

\* ------------------------------------------------------------- the sweeper
IcaoFilters ==
  {NoFilter} \cup {[given |-> TRUE, list |-> l] : l \in {<<>>, <<"SBMQ">>, <<"SBGR">>}}

SweepStart(icaos) ==
  /\ sweep.pc = "idle"
  /\ MayStart
  /\ mode = "conc" => icaos = NoFilter
  /\ sweep' = [pc |-> "q1", now |-> clock, icaos |-> icaos, result |-> "none",
                error |-> Undefined, updates |-> 1, pre |-> store]
  /\ last' = IF mode = "conc" THEN last ELSE [last EXCEPT !.adjacent = FALSE]
  /\ UNCHANGED <<store, clock, call, posted, mode, probe, dash, ctx, limiter, fav>>

\* Variant in which the failed update's error is not thrown.
SweepFailureReturned == "returned"
\* if (r.error) throw r.error: how a failed update reaches the caller.
SweepFailure == "thrown"

\* An update returns: the first (valid_until < now), then the second (valid_from > now).
\* A failed update changes nothing.
SweepResume ==
  /\ sweep.pc \in {"q1", "q2"}
  /\ \E ok \in BOOLEAN :
       IF ~ok
       THEN /\ sweep' = [sweep EXCEPT !.pc = "done", !.result = SweepFailure,
                                      !.error = IF sweep.pc = "q1" THEN "r1.error"
                                                ELSE "r2.error"]
            /\ store' = store
       ELSE IF sweep.pc = "q1"
       THEN /\ store' = ExpireUntil(store, sweep.now, sweep.icaos)
            /\ sweep' = [sweep EXCEPT !.pc = "q2", !.updates = @ + 1]
       ELSE /\ store' = ExpireFrom(store, sweep.now, sweep.icaos)
            /\ sweep' = [sweep EXCEPT !.pc = "done", !.result = "returned"]
  /\ UNCHANGED <<clock, call, posted, last, mode, probe, dash, ctx, limiter, fav>>

SweepRelease ==
  /\ sweep.pc = "done"
  /\ sweep' = IdleSweep
  /\ UNCHANGED <<store, clock, call, posted, last, mode, probe, dash, ctx, limiter, fav>>

\* ------------------------------------------------------------- next
Next ==
  \/ Tick
  \/ \E l \in AlertLists : SourceChange(l)
  \/ \E c \in Calls, icao \in CallIcaos : RegisterStart(c, icao)
  \/ \E c \in Calls : RegisterResume(c)
  \/ \E c \in Calls : RegisterRelease(c)
  \/ \E icaos \in IcaoFilters : SweepStart(icaos)
  \/ SweepResume
  \/ SweepRelease

Spec == Init /\ [][Next]_vars
SpecConc == InitConc /\ [][Next]_vars

\* ------------------------------------------------------------- isAlertInForce alone
\* The timestamp PostgREST returns for tick t; no bound (NaN here) is null or absent.
IsoOfTick(t) ==
  TextOf(<<"2","0","2","4","-","0","1","-","0","1","T","0">>
           \o <<CHOOSE d \in Digits : DigitValue(d) = t>>
           \o <<":","0","0",":","0","0","Z">>)
Ticks == 0..MaxTime

InitPure == mode = "pure" /\ InitCommon /\ store = <<>> /\ posted = <<>> /\ Aside

ProbeInForce(from, until, now, absent) ==
  LET vf == IF from = NaN THEN absent ELSE IsoOfTick(from)
      vu == IF until = NaN THEN absent ELSE IsoOfTick(until)
  IN  /\ mode = "pure"
      /\ probe' = [NoProbe EXCEPT
                     !.made = TRUE, !.from = from, !.until = until,
                     !.valid_from = vf, !.valid_until = vu, !.now = now,
                     !.inForce = isAlertInForce([valid_from |-> vf, valid_until |-> vu], now)]
      /\ UNCHANGED <<store, clock, call, sweep, posted, last, mode, dash, ctx, limiter, fav>>

\* The raw alerts the classifier, the severity rule and the field defaults of
\* the register loop are applied to.
MessageTexts ==
  {"", "AD WRNG SBMQ 010000/010600 TS OBSC", "tempestade severa",
   "Aerodromo FECHADO por tempestade", "AVISO de tempestade", "CAUTION",
   "aerodrome warning", "closed, severe turbulence, caution", "Aviso de Aer(o_acute)dromo"}
TypeTexts == {"", "AVISO", "sigmet", "SIGMET", "AD WRNG", "Aviso de Aer(o_acute)dromo"}
ProbeAlerts ==
  [mensagem : MessageTexts \cup {Undefined, Null},
   mens : {Undefined, "AD WRNG SBGR TS"},
   tipo : TypeTexts \cup {Undefined, Null}]

ProbeAlert(a) ==
  /\ mode = "pure"
  /\ probe' = [NoProbe EXCEPT
                 !.onAlert = TRUE, !.alert = a,
                 !.isWarning = isAerodromeWarning(a),
                 !.severity = determineAlertSeverity(a),
                 !.alertType = AlertTypeOf(a),
                 !.content = ContentOf(a)]
  /\ UNCHANGED <<store, clock, call, sweep, posted, last, mode, dash, ctx, limiter, fav>>

\* The source timestamps toIsoZ is applied to.
SourceTimestamps ==
  {Undefined, Null, "", "2024-01-01 01:00:00", "2024-01-01 02:00:00",
   "2024-01-01T01:00:00Z", "2024-01-01T01:00:00-03:00", "2024-01-01 01:00",
   "01/01/2024 01:00:00"}

ProbeTimestamp(v) ==
  /\ mode = "pure"
  /\ probe' = [NoProbe EXCEPT !.onTimestamp = TRUE, !.raw = v, !.iso = toIsoZ(v)]
  /\ UNCHANGED <<store, clock, call, sweep, posted, last, mode, dash, ctx, limiter, fav>>

\* The warning texts extractIcaosFromAdWarning is applied to.
WarningTexts ==
  {Undefined, Null, "", "   ", "AD WRNG SBMQ 010000/010600 TS OBSC",
   "SBMQ SBGR AD WRNG SBSP TS", "sbgr SBMQ SBGR", "SBMQ1 ABCDE SBGR/SBMQ",
   "SBGR AD WRNG SBMQ AD WRNG SBSP", "SBMQ ad wrng SBGR", "SBMQ_A AVISO SBGR",
   "tempestade severa"}

ProbeExtract(t) ==
  /\ mode = "pure"
  /\ probe' = [NoProbe EXCEPT !.onText = TRUE, !.text = t,
                                !.codes = extractIcaosFromAdWarning(t)]
  /\ UNCHANGED <<store, clock, call, sweep, posted, last, mode, dash, ctx, limiter, fav>>

NextPure ==
  \/ \E from \in Ticks \cup {NaN}, until \in Ticks \cup {NaN}, now \in Ticks,
        absent \in {Null, Undefined} : ProbeInForce(from, until, now, absent)
  \/ \E a \in ProbeAlerts : ProbeAlert(a)
  \/ \E v \in SourceTimestamps : ProbeTimestamp(v)
  \/ \E t \in WarningTexts : ProbeExtract(t)

SpecPure == InitPure /\ [][NextPure]_vars

\* ------------------------------------------------------------- adding a favorite
\* s.trim()
Trim(cs) ==
  IF IsBlank(cs) THEN <<>>
  ELSE LET first == CHOOSE i \in 1..Len(cs) : cs[i] # " " /\ \A j \in 1..(i - 1) : cs[j] = " "
           last_ == CHOOSE i \in 1..Len(cs) :
                      cs[i] # " " /\ \A j \in (i + 1)..Len(cs) : cs[j] = " "
       IN  SubSeq(cs, first, last_)

\* icaoSchema.safeParse: trimmed and upper-cased, then /^[A-Z]{4}$/.
ParseIcao(text) ==
  LET cs == toUpperCase(Trim(Chars[text]))
  IN  IF Len(cs) = 4 /\ \A i \in 1..4 : IsAZ(cs[i])
      THEN [success |-> TRUE, data |-> TextOf(cs)]
      ELSE [success |-> FALSE, data |-> ""]

\* What is typed into the ICAO field of the form.
NewIcaos == {"SBMQ", "sbmq", " sbgr ", "SB", ""}

\* Variant that sounds the alarm after every successful check.
AlarmDecisionOnSuccess(reg, audioEnabled) == reg.tag = "ok" /\ audioEnabled
\* reg.ok !== false && reg.inserted > 0 && audioEnabled: playAlarm() is called.
AlarmDecision(reg, audioEnabled) ==
  reg.tag = "ok" /\ reg.inserted > 0 /\ audioEnabled

InitFav == mode = "fav" /\ InitCommon /\ Aside

\* The audio switch of the Settings page.
FavToggleAudio ==
  /\ mode = "fav"
  /\ fav.pc = "idle"
  /\ fav' = [fav EXCEPT !.audioEnabled = ~@]
  /\ UNCHANGED <<store, clock, call, sweep, posted, last, mode, probe, dash, ctx, limiter>>

\* The button is pressed: validation, then the insert into favorites is issued.
FavStart(newIcao, nameGiven) ==
  LET parsedIcao == ParseIcao(newIcao)
  IN  /\ mode = "fav"
      /\ fav.pc = "idle"
      /\ fav' = IF ~parsedIcao.success \/ ~nameGiven
                THEN [fav EXCEPT !.pc = "done", !.newIcao = newIcao, !.outcome = "invalid"]
                ELSE [fav EXCEPT !.pc = "insert", !.newIcao = newIcao,
                                 !.icao = parsedIcao.data]
      /\ UNCHANGED <<store, clock, call, sweep, posted, last, mode, probe, dash, ctx, limiter>>

\* The insert into favorites has returned: on success the check of the
\* aerodrome's warnings begins.
FavInserted(ok) ==
  /\ fav.pc = "insert"
  /\ IF ok
     THEN /\ fav' = [fav EXCEPT !.pc = "register"]
          /\ call' = [call EXCEPT ![1] = [IdleCall EXCEPT !.pc = "fetch", !.icao = fav.icao,
                                                          !.pre = store]]
     ELSE /\ fav' = [fav EXCEPT !.pc = "done", !.outcome = "insertError"]
          /\ call' = call
  /\ UNCHANGED <<store, clock, sweep, posted, last, mode, probe, dash, ctx, limiter>>

\* registerAerodromeWarningsForIcao has returned reg: the toast and the alarm.
FavFinish ==
  /\ fav.pc = "register"
  /\ call[1].pc = "done"
  /\ LET reg == call[1].result
     IN  fav' = [fav EXCEPT !.pc = "done", !.reg = reg,
                            !.outcome = IF reg.tag = "fail" THEN "checkFailed"
                                        ELSE IF reg.inserted > 0 THEN "newWarning"
                                        ELSE "noNew",
                            !.alarm = AlarmDecision(reg, fav.audioEnabled)]
  /\ UNCHANGED <<store, clock, call, sweep, posted, last, mode, probe, dash, ctx, limiter>>

\* The handler has returned.
FavRelease ==
  /\ fav.pc = "done"
  /\ fav' = [IdleFav EXCEPT !.audioEnabled = fav.audioEnabled]
  /\ call' = [call EXCEPT ![1] = IdleCall]
  /\ UNCHANGED <<store, clock, sweep, posted, last, mode, probe, dash, ctx, limiter>>

NextFav ==
  \/ FavToggleAudio
  \/ \E newIcao \in NewIcaos, nameGiven \in BOOLEAN : FavStart(newIcao, nameGiven)
  \/ \E ok \in BOOLEAN : FavInserted(ok)
  \/ RegisterResume(1)
  \/ FavFinish
  \/ FavRelease

SpecFav == InitFav /\ [][NextFav]_vars

\* ------------------------------------------------------------- the dashboard
CHECK_INTERVAL_SECONDS == 30
\* The refetches of the countdown that may be awaited at once.
MaxPending == 2

\* statusData: undefined before the first answer for an ICAO, else what
\* fetchAerodromeStatusDetails returned (warningText is the "AD WRNG" line).
NoData == [some |-> FALSE, hasAdWarning |-> FALSE, warningText |-> Null]
DashDatas ==
  {[some |-> TRUE, hasAdWarning |-> FALSE, warningText |-> Null]}
    \cup {[some |-> TRUE, hasAdWarning |-> TRUE, warningText |-> t]
            : t \in {"AD WRNG SBMQ 010000/010600 TS OBSC", "AD WRNG SBGR TS"}}

\* The outcome of a refetch that leaves statusData as it was.
Kept == [some |-> FALSE, hasAdWarning |-> FALSE, warningText |-> "kept"]

\* list.length > 0 ? list[0].mensagem : ""
TopMessage(statusData) ==
  IF statusData.some /\ statusData.hasAdWarning
  THEN Coalesce(statusData.warningText, "Aviso de aerodromo ativo.")
  ELSE ""

MountedDash ==
  [nextCheck |-> CHECK_INTERVAL_SECONDS, pending |-> 0, statusData |-> NoData,
   lastMsgHash |-> "", audioEnabled |-> TRUE, showAlarmOverlay |-> FALSE,
   showAlarmRef |-> FALSE, alarmTimeout |-> FALSE, triggered |-> FALSE, event |-> "mount"]

stopAlarm(d) ==
  [d EXCEPT !.showAlarmRef = FALSE, !.showAlarmOverlay = FALSE, !.alarmTimeout = FALSE]

\* Variant without the audio test.
triggerAlarmUnconditional(d) ==
  [d EXCEPT !.showAlarmRef = TRUE, !.showAlarmOverlay = TRUE, !.alarmTimeout = TRUE]
triggerAlarm(d) ==
  IF ~d.audioEnabled THEN d
  ELSE [d EXCEPT !.showAlarmRef = TRUE, !.showAlarmOverlay = TRUE, !.alarmTimeout = TRUE]

\* Variant that keeps the last text when there is no warning.
ListEffectKeepingLast(d) ==
  LET topMessage == TopMessage(d.statusData)
  IN  IF topMessage # "" /\ topMessage # d.lastMsgHash
      THEN triggerAlarm([d EXCEPT !.lastMsgHash = topMessage, !.triggered = TRUE])
      ELSE [d EXCEPT !.triggered = FALSE]
\* The effect on list, run after a render; triggered records whether it called
\* triggerAlarm.
ListEffect(d) ==
  LET topMessage == TopMessage(d.statusData)
  IN  IF topMessage = ""
      THEN [d EXCEPT !.lastMsgHash = "", !.triggered = FALSE]
      ELSE IF topMessage # d.lastMsgHash
      THEN triggerAlarm([d EXCEPT !.lastMsgHash = topMessage, !.triggered = TRUE])
      ELSE [d EXCEPT !.triggered = FALSE]

\* Variant of the interval's update without the floor.
CountDownUnbounded(prev) == prev - 1
\* prev > 0 ? prev - 1 : 0
CountDown(prev) == IF prev > 0 THEN prev - 1 ELSE 0

InitDash ==
  /\ mode = "dash" /\ InitCommon /\ store = <<>> /\ posted = <<>>
  /\ dash = MountedDash /\ CtxAside /\ LimiterAside

\* The one-second interval fires; when the countdown thereby reaches 0 the
\* effect on nextCheck starts a refetch.
DashTick ==
  /\ mode = "dash"
  /\ LET next == CountDown(dash.nextCheck)
         starts == next = 0 /\ dash.nextCheck # 0
     IN  /\ starts => dash.pending < MaxPending
         /\ dash' = ListEffect([dash EXCEPT !.nextCheck = next,
                                            !.pending = IF starts THEN @ + 1 ELSE @,
                                            !.event = "tick"])
  /\ UNCHANGED <<store, clock, call, sweep, posted, last, mode, probe, ctx, limiter, fav>>

\* An awaited refetch resolves: with new data, or (Kept) with statusData as
\* it was (an error, or an answer for the ICAO shown before).
DashRefetchDone(out) ==
  /\ mode = "dash"
  /\ dash.pending > 0
  /\ dash' = ListEffect([dash EXCEPT !.pending = @ - 1,
                                     !.nextCheck = CHECK_INTERVAL_SECONDS,
                                     !.statusData = IF out = Kept THEN @ ELSE out,
                                     !.event = "done"])
  /\ UNCHANGED <<store, clock, call, sweep, posted, last, mode, probe, ctx, limiter, fav>>

\* A fetch the query library started by itself (mount, new ICAO, window focus)
\* delivers data.
DashDataArrives(d) ==
  /\ mode = "dash"
  /\ d # dash.statusData
  /\ dash' = ListEffect([dash EXCEPT !.statusData = d, !.event = "data"])
  /\ UNCHANGED <<store, clock, call, sweep, posted, last, mode, probe, ctx, limiter, fav>>

\* The active ICAO changes: the countdown restarts and statusData is that of
\* the new query key (undefined, or what the cache holds for it).
DashIcaoChange(d) ==
  /\ mode = "dash"
  /\ dash' = ListEffect([dash EXCEPT !.nextCheck = CHECK_INTERVAL_SECONDS,
                                     !.statusData = d, !.event = "icao"])
  /\ UNCHANGED <<store, clock, call, sweep, posted, last, mode, probe, ctx, limiter, fav>>

\* The audio button.
DashToggleAudio ==
  /\ mode = "dash"
  /\ LET next == ~dash.audioEnabled
         d == [dash EXCEPT !.audioEnabled = next, !.event = "toggle"]
     IN  dash' = ListEffect(IF next THEN d ELSE stopAlarm(d))
  /\ UNCHANGED <<store, clock, call, sweep, posted, last, mode, probe, ctx, limiter, fav>>

\* The button of the overlay.
DashAcknowledge ==
  /\ mode = "dash"
  /\ dash.showAlarmOverlay
  /\ dash' = ListEffect(stopAlarm([dash EXCEPT !.event = "ack"]))
  /\ UNCHANGED <<store, clock, call, sweep, posted, last, mode, probe, ctx, limiter, fav>>

\* The timeout of the beep loop fires: playLoop beeps and schedules itself
\* again while showAlarmRef is set.
DashPlayLoop ==
  /\ mode = "dash"
  /\ dash.alarmTimeout
  /\ dash' = [dash EXCEPT !.alarmTimeout = dash.showAlarmRef, !.event = "beep",
                          !.triggered = FALSE]
  /\ UNCHANGED <<store, clock, call, sweep, posted, last, mode, probe, ctx, limiter, fav>>

NextDash ==
  \/ DashTick
  \/ \E out \in DashDatas \cup {Kept} : DashRefetchDone(out)
  \/ \E d \in DashDatas : DashDataArrives(d)
  \/ \E d \in DashDatas \cup {NoData} : DashIcaoChange(d)
  \/ DashToggleAudio
  \/ DashAcknowledge
  \/ DashPlayLoop

SpecDash == InitDash /\ [][NextDash]_vars

\* ------------------------------------------------------------- the ICAO context
\* value.trim().toUpperCase().replace(/[^A-Z]/g, ""): the characters left.
normalizeIcao(value) ==
  LET cs == toUpperCase(Trim(Chars[value]))
  IN  SelectSeq(cs, IsAZ)

\* Variant of the test that accepts letters in any number.
IsIcaoAnyLength(cs) == \A i \in 1..Len(cs) : IsAZ(cs[i])
\* /^[A-Z]{4}$/.test(normalized)
IsIcao(cs) == Len(cs) = 4 /\ \A i \in 1..4 : IsAZ(cs[i])

\* What localStorage holds under "adwrng_icao" at mount (null: nothing).
SavedValues == {Null, "SBMQ", "SBGR", "sbmq", " sbgr ", "sb1gr", "SB", "", "SBGRX"}
\* What is typed into the search field.
TypedValues == {"SBMQ", "SBGR", "sbmq", " sbgr ", "sb1gr", "SB", "", "SBGRX"}

getInitialIcao(saved) ==
  LET normalized == normalizeIcao(Coalesce(saved, "SBMQ"))
  IN  IF IsIcao(normalized) THEN TextOf(normalized) ELSE "SBMQ"

InitIcao ==
  /\ mode = "icao" /\ InitCommon /\ store = <<>> /\ posted = <<>>
  /\ DashAside /\ LimiterAside
  /\ \E saved \in SavedValues :
       ctx = [icao |-> getInitialIcao(saved), inputIcao |-> getInitialIcao(saved),
              saved |-> saved, returned |-> "none", event |-> "mount"]

setInputIcao(value) ==
  /\ mode = "icao"
  /\ value # ctx.inputIcao
  /\ ctx' = [ctx EXCEPT !.inputIcao = value, !.returned = "none", !.event = "input"]
  /\ UNCHANGED <<store, clock, call, sweep, posted, last, mode, probe, dash, limiter, fav>>

searchIcao ==
  /\ mode = "icao"
  /\ LET normalized == normalizeIcao(ctx.inputIcao)
     IN  ctx' = IF ~IsIcao(normalized)
                THEN [ctx EXCEPT !.returned = "false", !.event = "search"]
                ELSE [ctx EXCEPT !.icao = TextOf(normalized),
                                 !.inputIcao = TextOf(normalized),
                                 !.saved = TextOf(normalized),
                                 !.returned = "true", !.event = "search"]
  /\ UNCHANGED <<store, clock, call, sweep, posted, last, mode, probe, dash, limiter, fav>>

NextIcao ==
  \/ \E value \in TypedValues : setInputIcao(value)
  \/ searchIcao

SpecIcao == InitIcao /\ [][NextIcao]_vars

\* ------------------------------------------------------------- the proxy's rate limiter
RATE_LIMIT_WINDOW == 60000
MAX_REQUESTS == 60
\* Date.now() runs from 0 over this many windows, in steps of half a window.
MaxWindows == 2

\* req.headers.get('x-forwarded-for')?.split(',')[0] || 'unknown'
Clients == {"203.0.113.7", "unknown"}

\* rateLimitMap.get(ip) of a client that has no entry.
NoRecord == [some |-> FALSE, count |-> 0, resetTime |-> 0]

\* Variant that lets one more request through.
checkRateLimitOneMore(map, ip, now) ==
  LET record == map[ip]
  IN  IF ~record.some \/ now > record.resetTime
      THEN [map |-> [map EXCEPT ![ip] = [some |-> TRUE, count |-> 1,
                                         resetTime |-> now + RATE_LIMIT_WINDOW]],
            allowed |-> TRUE]
      ELSE IF record.count > MAX_REQUESTS
      THEN [map |-> map, allowed |-> FALSE]
      ELSE [map |-> [map EXCEPT ![ip].count = @ + 1], allowed |-> TRUE]

\* checkRateLimit(ip) at Date.now() = now: the map afterwards and the result.
checkRateLimit(map, ip, now) ==
  LET record == map[ip]
  IN  IF ~record.some \/ now > record.resetTime
      THEN [map |-> [map EXCEPT ![ip] = [some |-> TRUE, count |-> 1,
                                         resetTime |-> now + RATE_LIMIT_WINDOW]],
            allowed |-> TRUE]
      ELSE IF record.count >= MAX_REQUESTS
      THEN [map |-> map, allowed |-> FALSE]
      ELSE [map |-> [map EXCEPT ![ip].count = @ + 1], allowed |-> TRUE]

InitRate ==
  /\ mode = "rate" /\ InitCommon /\ store = <<>> /\ posted = <<>>
  /\ DashAside /\ CtxAside
  /\ limiter = [now |-> 0, map |-> [ip \in Clients |-> NoRecord],
                ip |-> "unknown", allowed |-> TRUE, event |-> "start"]

\* Time passes on the proxy's host.
RateAdvance ==
  /\ mode = "rate"
  /\ limiter.now < MaxWindows * RATE_LIMIT_WINDOW
  /\ limiter' = [limiter EXCEPT !.now = @ + RATE_LIMIT_WINDOW \div 2, !.event = "time"]
  /\ UNCHANGED <<store, clock, call, sweep, posted, last, mode, probe, dash, ctx, fav>>

\* A request of client ip reaches the proxy.
RateRequest(ip) ==
  /\ mode = "rate"
  /\ LET r == checkRateLimit(limiter.map, ip, limiter.now)
     IN  limiter' = [limiter EXCEPT !.map = r.map, !.ip = ip, !.allowed = r.allowed,
                                    !.event = "request"]
  /\ UNCHANGED <<store, clock, call, sweep, posted, last, mode, probe, dash, ctx, fav>>

NextRate ==
  \/ RateAdvance
  \/ \E ip \in Clients : RateRequest(ip)

SpecRate == InitRate /\ [][NextRate]_vars

\* ------------------------------------------------------------- properties
\* The tick a stored timestamp denotes, read off the timestamp table.
TickOf(ts) == CHOOSE t \in 0..5 : IsoOfTick(t) = ts
\* The number of classified warnings in a source response.
Classified(items) == Len(FilterWarnings(items))
\* The message of a raw alert as the caller sees it.
MessageOf(a) == Coalesce(a.mensagem, a.mens)
\* The rows of st holding the triple of raw alert a for icao.
RowsOf(st, icao, a) ==
  {i \in DOMAIN st : TripleOf(st[i]) = <<UpperIcao(icao), AlertTypeOf(a), ContentOf(a)>>}
\* The register call c follows a successful call for the same ICAO while the
\* source kept listing the same alerts.
IsRepeat(c) == last.some /\ last.icao = call[c].icao

\* C1: from a store with at most one active record per (icao, alert_type, content),
\* any sequence of non-overlapping register and sweep calls, whatever the source
\* returns (the same warning twice included), leaves at most one active record
\* per triple.
C1_AtMostOneActivePerTriple == AtMostOneActive(store)

\* A register call has returned for a response listing the same warning twice,
\* over a store that already held an active and an expired row.
C1_Witness ==
  /\ call[1].pc = "done" /\ call[1].result.tag = "ok"
  /\ call[1].items = <<1, 1>>
  /\ \E i, j \in DOMAIN store : store[i].status = "active" /\ store[j].status = "expired"
                                 /\ TripleOf(store[i]) = TripleOf(store[j])

\* C2: when the source returns one raw alert that is an aerodrome warning, for
\* an ICAO with no active record of that triple, the register call returns
\* ok with inserted = 1, alreadyActive = 0 and sampleMessage the message, and
\* the store then holds a new active record of that triple with the severity of
\* determineAlertSeverity.
C2_FreshWarningInserted ==
  \A c \in Calls :
    LET cr == call[c]
        a == RawAlerts[cr.items[1]]
        n == Len(store)
    IN  ( /\ cr.pc = "done" /\ cr.result.tag = "ok"
          /\ Len(cr.items) = 1 /\ isAerodromeWarning(a)
          /\ ExistingActive(cr.pre, cr.icao, AlertTypeOf(a), ContentOf(a)) = {} )
        => /\ cr.result.inserted = 1 /\ cr.result.alreadyActive = 0
           /\ cr.result.sampleMessage = MessageOf(a)
           /\ n = Len(cr.pre) + 1
           /\ store[n].status = "active"
           /\ n \in RowsOf(store, cr.icao, a)
           /\ store[n].severity = determineAlertSeverity(a)

\* C3: a second register call for the same ICAO, right after a first one, with
\* the same response holding at least one classified warning, returns
\* inserted = 0 and alreadyActive = the number of classified warnings, and
\* leaves the store as it was.
C3_SecondCallAllAlreadyActive ==
  \A c \in Calls :
    LET cr == call[c]
    IN  ( /\ cr.pc = "done" /\ cr.result.tag = "ok"
          /\ IsRepeat(c) /\ last.adjacent
          /\ Classified(cr.items) >= 1 )
        => /\ cr.result.inserted = 0
           /\ cr.result.alreadyActive = Classified(cr.items)
           /\ store = cr.pre

C5_RacingCallsBothInsert ==
  LET a == RawAlerts[call[1].items[1]]
      fresh(c) == ExistingActive(call[c].pre, call[c].icao, AlertTypeOf(a), ContentOf(a)) = {}
      new == {i \in RowsOf(store, call[1].icao, a) :
                i > Len(call[1].pre) \/ i > Len(call[2].pre)}
  IN  ( /\ \A c \in Calls : call[c].pc = "done" /\ call[c].result.tag = "ok"
        /\ call[1].icao = call[2].icao
        /\ call[1].items = call[2].items
        /\ Len(call[1].items) = 1 /\ isAerodromeWarning(a)
        /\ fresh(1) /\ fresh(2)
        /\ \A c \in Calls : call[c].result.alreadyActive = 0 )
      => /\ \A c \in Calls : call[c].result.inserted = 1
         /\ Cardinality(new) >= 2

\* C6: a record that is expired stays expired through every step of register
\* and sweep calls; it is never set back to active (nor removed).
C6_ExpiryIsOneWay ==
  [][\A i \in DOMAIN store :
       store[i].status = "expired" => (i \in DOMAIN store' /\ store'[i].status = "expired")]_vars

\* A register call has returned for a source that lists the warning of a row
\* that was expired before the call, and the row is still expired.
C6_Witness ==
  /\ call[1].pc = "done" /\ call[1].result.tag = "ok"
  /\ Classified(call[1].items) >= 1
  /\ \E i \in DOMAIN call[1].pre :
       /\ call[1].pre[i].status = "expired"
       /\ store[i].status = "expired"
       /\ i \in RowsOf(store, call[1].icao, RawAlerts[FilterWarnings(call[1].items)[1]])

\* C7: when every stored record of a triple is expired or archived and the
\* source returns that warning again, the register call inserts a new active
\* record, counts it in inserted, and leaves the older records as they were.
C7_ExpiredDoesNotBlock ==
  \A c \in Calls :
    LET cr == call[c]
        a == RawAlerts[FilterWarnings(cr.items)[1]]
        old == RowsOf(cr.pre, cr.icao, a)
    IN  ( /\ cr.pc = "done" /\ cr.result.tag = "ok"
          /\ Classified(cr.items) >= 1
          /\ old # {}
          /\ \A i \in old : cr.pre[i].status \in {"expired", "archived"} )
        => /\ cr.result.inserted >= 1
           /\ \E i \in RowsOf(store, cr.icao, a) :
                i > Len(cr.pre) /\ store[i].status = "active"
           /\ \A i \in DOMAIN cr.pre : store[i] = cr.pre[i]

\* The record is outside its validity window at now: a bound that is set lies
\* strictly on the wrong side of now.
OutOfWindow(r, now) ==
  \/ r.valid_until # Null /\ TickOf(r.valid_until) < now
  \/ r.valid_from # Null /\ TickOf(r.valid_from) > now
\* The sweep call covers the record: no ICAO list or an empty one was given, or
\* the record's ICAO is in the list.
Covered(r, icaos) ==
  \/ ~icaos.given
  \/ icaos.list = <<>>
  \/ \E k \in DOMAIN icaos.list : icaos.list[k] = r.icao

\* C8 (amended): after a sweep has completed without error at time now, a
\* record that was active before the call and that the call's ICAO list covers
\* is expired if and only if it is out of its window at now (a bound equal to
\* now, or no bounds, leaves it active); every other record is as it was.
C8_SweepExpiresExactlyOutOfWindowCovered ==
  (sweep.pc = "done" /\ sweep.result = "returned")
  => /\ DOMAIN store = DOMAIN sweep.pre
     /\ \A i \in DOMAIN sweep.pre :
          LET r == sweep.pre[i]
          IN  IF r.status = "active" /\ Covered(r, sweep.icaos)
              THEN /\ store[i].status = "expired" <=> OutOfWindow(r, sweep.now)
                   /\ store[i].status \in {"active", "expired"}
              ELSE store[i] = r

\* A sweep restricted to one ICAO has returned: it expired a row of that ICAO
\* and left an out-of-window active row of another ICAO as it was.
C8_Witness ==
  /\ sweep.pc = "done" /\ sweep.result = "returned"
  /\ \E i, j \in DOMAIN sweep.pre :
       /\ sweep.pre[i].status = "active" /\ store[i].status = "expired"
       /\ sweep.pre[j].status = "active" /\ store[j].status = "active"
       /\ OutOfWindow(sweep.pre[j], sweep.now)
       /\ ~Covered(sweep.pre[j], sweep.icaos)

\* C8 as stated: after a sweep has completed without error at time now, every
\* record that was active before the call is expired if and only if it is out
\* of its window at now.
C8_SweepExpiresExactlyOutOfWindow ==
  (sweep.pc = "done" /\ sweep.result = "returned")
  => \A i \in DOMAIN sweep.pre :
       sweep.pre[i].status = "active"
         => (store[i].status = "expired" <=> OutOfWindow(sweep.pre[i], sweep.now))

\* C9: isAlertInForce(record, now) is true exactly when (valid_from is absent
\* or now >= valid_from) and (valid_until is absent or now <= valid_until); so
\* true at either boundary and false one tick outside.
C9_InForceInclusive ==
  probe.made
  => (probe.inForce <=> /\ (probe.from = NaN \/ probe.now >= probe.from)
                        /\ (probe.until = NaN \/ probe.now <= probe.until))

\* isAlertInForce was evaluated at now = valid_from of a window that ends later.
C9_Witness ==
  /\ probe.made /\ probe.inForce
  /\ probe.from # NaN /\ probe.until # NaN
  /\ probe.from < probe.until
  /\ probe.now = probe.from

\* C10 (amended): a store failure in the sweep reaches the caller as a thrown
\* error; a register call never throws, it ends in a tagged result, and a
\* store failure in it is the tagged failure.
C10_StoreFailureDelivery ==
  /\ (sweep.pc = "done" /\ sweep.error # Undefined) => sweep.result = "thrown"
  /\ \A c \in Calls :
       call[c].pc = "done"
         => /\ call[c].result.tag \in {"ok", "fail"}
            /\ call[c].result.error \in {"existing check error", "insert error"}
                 => call[c].result.tag = "fail"

\* A sweep has ended on a failed update.
C10_Witness == sweep.pc = "done" /\ sweep.error # Undefined

\* C10 as stated: a store failure in either entry point is not thrown.
C10_StoreFailureNeverThrown ==
  /\ (sweep.pc = "done" /\ sweep.error # Undefined) => sweep.result # "thrown"
  /\ \A c \in Calls :
       (call[c].pc = "done" /\ call[c].result.error # Undefined) => call[c].result.tag = "fail"

\* The rows of before are in after, unchanged and at their places.
KeepsRows(before, after) ==
  /\ Len(after) >= Len(before)
  /\ \A i \in DOMAIN before : after[i] = before[i]
\* The ICAO list names the record's ICAO.
InList(r, icaos) == \E k \in DOMAIN icaos.list : icaos.list[k] = r.icao

\* C11: when the source reports an error, the register call returns the failure
\* result carrying that error message, issues no store call and leaves the store
\* as it was.
C11_SourceErrorNoStoreAccess ==
  \A c \in Calls :
    (call[c].pc = "done" /\ call[c].srcError # Undefined)
    => /\ call[c].result.tag = "fail"
       /\ call[c].result.error = call[c].srcError
       /\ call[c].queries = 0
       /\ store = call[c].pre

\* A register call over a non-empty store has returned after the source
\* answered with an HTTP error status.
C11_Witness ==
  /\ call[1].pc = "done"
  /\ call[1].srcError = "REDEMET retornou 500"
  /\ call[1].pre # <<>>

C13_QuietAerodromeNoStoreCall ==
  \A c \in Calls :
    (call[c].pc = "done" /\ call[c].srcError = Undefined /\ Classified(call[c].items) = 0)
    => /\ call[c].result.tag = "ok"
       /\ call[c].result.inserted = 0 /\ call[c].result.alreadyActive = 0
       /\ call[c].queries = 0
       /\ store = call[c].pre

\* A repeated poll has returned for a response that lists alerts, none of them
\* an aerodrome warning.
C13_Witness ==
  /\ call[1].pc = "done" /\ call[1].result.tag = "ok"
  /\ call[1].items # <<>> /\ Classified(call[1].items) = 0
  /\ IsRepeat(1)

\* C14: a register call only adds records: every record that was in the store
\* when the call began is there unchanged, in every field, while the call runs
\* and after it has returned, with a success or a failure.
C14_RegisterOnlyAdds ==
  \A c \in Calls : call[c].pc # "idle" => KeepsRows(call[c].pre, store)

\* A register call has returned for a response with a warning whose triple
\* already had an active row when the call began.
C14_Witness ==
  /\ call[1].pc = "done" /\ call[1].result.tag = "ok"
  /\ Classified(call[1].items) >= 1
  /\ \E i \in RowsOf(call[1].pre, call[1].icao, RawAlerts[FilterWarnings(call[1].items)[1]]) :
       call[1].pre[i].status = "active"

\* C15 (amended): a sweep given a non-empty ICAO list leaves every record whose
\* ICAO is not in the list as it was.
C15_SweepKeepsUnlistedIcaosNonEmptyList ==
  (sweep.pc # "idle" /\ sweep.icaos.given /\ sweep.icaos.list # <<>>)
  => /\ DOMAIN store = DOMAIN sweep.pre
     /\ \A i \in DOMAIN sweep.pre :
          ~InList(sweep.pre[i], sweep.icaos) => store[i] = sweep.pre[i]

\* A sweep given the list (SBGR) has returned: it expired a row of SBGR and left
\* an out-of-window active row of SBMQ as it was.
C15_Witness ==
  /\ sweep.pc = "done" /\ sweep.result = "returned"
  /\ sweep.icaos.given /\ sweep.icaos.list = <<"SBGR">>
  /\ \E i, j \in DOMAIN sweep.pre :
       /\ sweep.pre[i].icao = "SBGR" /\ sweep.pre[i].status = "active"
       /\ store[i].status = "expired"
       /\ sweep.pre[j].icao = "SBMQ" /\ sweep.pre[j].status = "active"
       /\ OutOfWindow(sweep.pre[j], sweep.now)
       /\ store[j] = sweep.pre[j]

\* C15 as stated: a sweep given an ICAO list, whatever the list, leaves every
\* record whose ICAO is not in the list as it was.
C15_SweepKeepsUnlistedIcaos ==
  (sweep.pc # "idle" /\ sweep.icaos.given)
  => \A i \in DOMAIN sweep.pre :
       ~InList(sweep.pre[i], sweep.icaos) => store[i] = sweep.pre[i]

\* C16: a sweep that has returned has left a store that a second run with the
\* same now changes in nothing, and no step of a sweep changes a record that is
\* expired.
C16_SweepIdempotent ==
  [][/\ (sweep'.pc = "done" /\ sweep'.result = "returned")
          => ExpireFrom(ExpireUntil(store', sweep'.now, sweep'.icaos),
                        sweep'.now, sweep'.icaos) = store'
     /\ (sweep.pc \in {"q1", "q2"} /\ sweep' # sweep)
          => \A i \in DOMAIN store :
               store[i].status = "expired" => store'[i] = store[i]]_vars

\* A sweep has returned over a store that held an expired row, having expired
\* another row itself.
C16_Witness ==
  /\ sweep.pc = "done" /\ sweep.result = "returned"
  /\ \E i, j \in DOMAIN sweep.pre :
       /\ sweep.pre[i].status = "active" /\ store[i].status = "expired"
       /\ sweep.pre[j].status = "expired" /\ store[j] = sweep.pre[j]

\* C18: a successful register call whose response holds a classified warning
\* returns as sampleMessage the content computed for the first of them, in the
\* source's order; with no classified warning sampleMessage is absent.
C18_SampleMessageIsFirstContent ==
  \A c \in Calls :
    (call[c].pc = "done" /\ call[c].result.tag = "ok")
    => IF Classified(call[c].items) >= 1
       THEN call[c].result.sampleMessage
              = ContentOf(RawAlerts[FilterWarnings(call[c].items)[1]])
       ELSE call[c].result.sampleMessage = Undefined

\* The keywords a text holds once lower-cased and stripped of diacritics; a
\* missing text holds none.
Holds(text) ==
  CASE text \in {"AD WRNG SBMQ 010000/010600 TS OBSC", "AD WRNG SBGR TS", "AD WRNG"} ->
         {"ad wrng", "ad"}
    [] text = "tempestade severa" -> {"tempestade", "ad"}
    [] text = "Aerodromo FECHADO por tempestade" ->
         {"aerodromo", "fechado", "tempestade", "ad"}
    [] text = "AVISO de tempestade" -> {"aviso", "tempestade", "ad"}
    [] text = "CAUTION" -> {"caution"}
    [] text = "aerodrome warning" -> {"aerodrome warning", "warning"}
    [] text = "closed, severe turbulence, caution" ->
         {"closed", "severe", "turbulence", "caution"}
    [] text = "Aviso de Aer(o_acute)dromo" -> {"aviso", "aerodromo"}
    [] text = "AVISO" -> {"aviso"}
    [] text \in {"sigmet", "SIGMET"} -> {"sigmet"}
    [] OTHER -> {}
\* The message of a raw alert: mensagem, else mens, else none.
EffectiveMessage(a) ==
  IF a.mensagem \notin {Undefined, Null} THEN a.mensagem
  ELSE IF a.mens \notin {Undefined, Null} THEN a.mens ELSE ""

C19_SeverityFirstMatchingTier ==
  probe.onAlert
  => LET m == Holds(probe.alert.mensagem)
         t == Holds(probe.alert.tipo)
     IN  /\ probe.severity \in {"critical", "high", "medium", "low"}
         /\ probe.severity =
              IF m \cap {"closed", "fechado", "danger"} # {} \/ "sigmet" \in t
              THEN "critical"
              ELSE IF m \cap {"thunderstorm", "tempestade", "severe", "turbulence"} # {}
              THEN "high"
              ELSE IF m \cap {"caution", "warning", "aviso"} # {}
              THEN "medium"
              ELSE "low"

\* The severity was computed for a message with critical, high and medium
\* keywords together, and is critical.
C19_Witness ==
  /\ probe.onAlert
  /\ probe.alert.mensagem = "closed, severe turbulence, caution"
  /\ probe.alert.tipo = "AVISO"
  /\ probe.severity = "critical"

\* C20: isAerodromeWarning is true exactly when the normalized message holds
\* "ad wrng" or "aerodrome warning", or the type or the message holds
\* "aerodromo", or the type holds "aviso" and the message holds "ad" or
\* "aerodromo"; a missing message or type counts as the empty string.
C20_ClassifierRule ==
  probe.onAlert
  => LET m == Holds(EffectiveMessage(probe.alert))
         t == Holds(probe.alert.tipo)
     IN  probe.isWarning
           <=> \/ "ad wrng" \in m \/ "aerodrome warning" \in m
               \/ "aerodromo" \in t \/ "aerodromo" \in m
               \/ "aviso" \in t /\ ("ad" \in m \/ "aerodromo" \in m)

\* The classifier accepted an alert without a message on its accented type
\* alone.
C20_Witness ==
  /\ probe.onAlert /\ probe.isWarning
  /\ probe.alert.mensagem = Undefined /\ probe.alert.mens = Undefined
  /\ probe.alert.tipo = "Aviso de Aer(o_acute)dromo"

\* The number of rows of st that belong to the ICAO of a call.
OwnCount(st, icao) == Cardinality({i \in DOMAIN st : st[i].icao = UpperIcao(icao)})
\* A sweep call without an ICAO restriction.
Unfiltered(icaos) == ~icaos.given \/ icaos.list = <<>>

C25_EveryWarningCounted ==
  \A c \in Calls :
    (call[c].pc = "done" /\ call[c].result.tag = "ok")
    => /\ call[c].result.inserted + call[c].result.alreadyActive = Classified(call[c].items)
       /\ Len(store) = Len(call[c].pre) + call[c].result.inserted

\* C26: right after a sweep without ICAO filter has completed without error at
\* time now, every record with status active is in force at now.
C26_ActiveInForceAfterSweep ==
  (sweep.pc = "done" /\ sweep.result = "returned" /\ Unfiltered(sweep.icaos))
  => \A i \in DOMAIN store :
       store[i].status = "active" => isAlertInForce(store[i], sweep.now)

\* A sweep without filter has returned: it expired a row and an active row is
\* left.
C26_Witness ==
  /\ sweep.pc = "done" /\ sweep.result = "returned" /\ ~sweep.icaos.given
  /\ \E i, j \in DOMAIN store :
       /\ sweep.pre[i].status = "active" /\ store[i].status = "expired"
       /\ store[j].status = "active"

\* C27: when a sweep ends in error, either its first update failed and no
\* record is changed, or its second update failed and exactly the active
\* records whose valid_until lies before now are expired; no record is changed
\* that is not out of its window.
C27_SweepErrorNoPartialCorruption ==
  (sweep.pc = "done" /\ sweep.result = "thrown")
  => /\ DOMAIN store = DOMAIN sweep.pre
     /\ \A i \in DOMAIN sweep.pre :
          LET r == sweep.pre[i]
              first == /\ r.status = "active" /\ Covered(r, sweep.icaos)
                       /\ r.valid_until # Null /\ TickOf(r.valid_until) < sweep.now
          IN  /\ store[i] = IF sweep.error = "r2.error" /\ first
                            THEN [r EXCEPT !.status = "expired"] ELSE r
              /\ store[i] # r => OutOfWindow(r, sweep.now)

\* A sweep has ended on the failure of its second update, after the first had
\* expired a row.
C27_Witness ==
  /\ sweep.pc = "done" /\ sweep.error = "r2.error"
  /\ \E i \in DOMAIN sweep.pre :
       sweep.pre[i].status = "active" /\ store[i].status = "expired"

\* C28: a register call that meets a new warning whose validity window
\* excludes the present time stores it as an active record all the same: the
\* store then holds a new active record that is not in force.
C28_InsertsActiveOutOfWindow ==
  \A c \in Calls :
    LET cr == call[c]
        a == RawAlerts[cr.items[1]]
        until == ValidUntilOf(a)
        from == ValidFromOf(a)
    IN  ( /\ cr.pc = "done" /\ cr.result.tag = "ok"
          /\ Len(cr.items) = 1 /\ isAerodromeWarning(a)
          /\ ExistingActive(cr.pre, cr.icao, AlertTypeOf(a), ContentOf(a)) = {}
          /\ IcaoCheck(UpperIcao(cr.icao))
          /\ \/ until # Null /\ TickOf(until) < clock
             \/ from # Null /\ TickOf(from) > clock )
        => \E i \in DOMAIN store :
             /\ i > Len(cr.pre)
             /\ store[i].status = "active"
             /\ ~isAlertInForce(store[i], clock)

\* C29: no step of a register or sweep call changes a record that is archived,
\* sets a record's status to archived, or adds an archived record.
C29_ArchivedUntouched ==
  [][/\ DOMAIN store \subseteq DOMAIN store'
     /\ \A i \in DOMAIN store' :
          IF i \in DOMAIN store
          THEN /\ store[i].status = "archived" => store'[i] = store[i]
               /\ store'[i].status = "archived" => store[i].status = "archived"
          ELSE store'[i].status # "archived"]_vars

\* A sweep has returned over a store with an archived record that is out of its
\* window, the record being as it was.
C29_Witness ==
  /\ sweep.pc = "done" /\ sweep.result = "returned"
  /\ \E i \in DOMAIN sweep.pre :
       /\ sweep.pre[i].status = "archived"
       /\ OutOfWindow(sweep.pre[i], sweep.now)
       /\ Covered(sweep.pre[i], sweep.icaos)
       /\ store[i] = sweep.pre[i]

\* C30: a step of a sweep changes no field of any record but the status: icao,
\* alert_type, content, severity, valid_from, valid_until and raw_data stay.
C30_SweepChangesStatusOnly ==
  [][(sweep.pc \in {"q1", "q2"} /\ sweep' # sweep)
       => /\ DOMAIN store' = DOMAIN store
          /\ \A i \in DOMAIN store :
               [store'[i] EXCEPT !.status = store[i].status] = store[i]]_vars

\* A sweep has returned having expired a record that had not yet begun, the
\* record keeping its severity and its other fields.
C30_Witness ==
  /\ sweep.pc = "done" /\ sweep.result = "returned"
  /\ \E i \in DOMAIN sweep.pre :
       /\ sweep.pre[i].status = "active" /\ store[i].status = "expired"
       /\ sweep.pre[i].valid_from # Null /\ TickOf(sweep.pre[i].valid_from) > sweep.now
       /\ store[i].severity = sweep.pre[i].severity

\* C23: toIsoZ turns a source timestamp of the shape "YYYY-MM-DD HH:mm:ss"
\* into the same date and time with "T" and a trailing "Z", returns a
\* timestamp of any other shape unchanged, and gives null for a missing or
\* empty one.
C23_ToIsoZ ==
  probe.onTimestamp
  => probe.iso =
       CASE probe.raw \in {Undefined, Null, ""} -> Null
         [] probe.raw = "2024-01-01 01:00:00" -> "2024-01-01T01:00:00Z"
         [] probe.raw = "2024-01-01 02:00:00" -> "2024-01-01T02:00:00Z"
         [] OTHER -> probe.raw

\* toIsoZ has been applied to a timestamp without zone and has tagged it UTC.
C23_Witness ==
  /\ probe.onTimestamp
  /\ probe.raw = "2024-01-01 01:00:00"
  /\ probe.iso = "2024-01-01T01:00:00Z"

\* C24: extractIcaosFromAdWarning returns, once each and in first-seen order,
\* exactly the four-letter tokens of the upper-cased text that stand before
\* its first "AD WRNG" marker, or in the whole text when it has no marker;
\* nothing from after the marker; and nothing for an empty or blank input.
C24_ExtractIcaos ==
  probe.onText
  => probe.codes =
       CASE probe.text \in {Undefined, Null, "", "   "} -> <<>>
         [] probe.text = "AD WRNG SBMQ 010000/010600 TS OBSC" -> <<>>
         [] probe.text = "SBMQ SBGR AD WRNG SBSP TS" -> <<Chars["SBMQ"], Chars["SBGR"]>>
         [] probe.text = "sbgr SBMQ SBGR" -> <<Chars["SBGR"], Chars["SBMQ"]>>
         [] probe.text = "SBMQ1 ABCDE SBGR/SBMQ" -> <<Chars["SBGR"], Chars["SBMQ"]>>
         [] probe.text = "SBGR AD WRNG SBMQ AD WRNG SBSP" -> <<Chars["SBGR"]>>
         [] probe.text = "SBMQ ad wrng SBGR" -> <<Chars["SBMQ"]>>
         [] probe.text = "SBMQ_A AVISO SBGR" -> <<Chars["SBGR"]>>
         [] probe.text = "tempestade severa" -> <<>>

\* The function has been applied to a text with codes on both sides of the
\* marker and has returned the two before it.
C24_Witness ==
  /\ probe.onText
  /\ probe.text = "SBMQ SBGR AD WRNG SBSP TS"
  /\ Len(probe.codes) = 2

\* C31 (amended): there are no internal retries. A register call issues at
\* most one request to the source (none when the API key is missing, one
\* otherwise) and, per classified warning, at most one existence query and one
\* insert; a sweep issues at most two bulk updates, the second only after the
\* first succeeded; a call that has ended, failed or not, does nothing more.
C31_NoInternalRetries ==
  /\ [](\A c \in Calls :
          /\ call[c].fetches <= 1
          /\ call[c].queries <= 2 * Classified(call[c].items)
          /\ call[c].pc = "done"
             => (call[c].fetches = 0
                   <=> call[c].srcError = "VITE_REDEMET_API_KEY nao configurada no .env."))
  /\ [](/\ sweep.updates <= 2
        /\ sweep.pc = "done"
           => sweep.updates = IF sweep.error = "r1.error" THEN 1 ELSE 2)
  /\ [][/\ \A c \in Calls : call[c].pc = "done" => call'[c] \in {call[c], IdleCall}
        /\ sweep.pc = "done" => sweep' \in {sweep, IdleSweep}]_vars

\* A register call has ended in failure after its one request to the source.
C31_Witness ==
  /\ call[1].pc = "done" /\ call[1].result.tag = "fail"
  /\ call[1].srcError = "REDEMET retornou 500"
  /\ call[1].fetches = 1

\* C31 as stated: in one register call the source is fetched exactly once.
C31_SourceFetchedExactlyOnce ==
  \A c \in Calls : call[c].pc = "done" => call[c].fetches = 1

\* C32: a record whose valid_from and valid_until are both null is left active
\* by every sweep, and a register call that meets a classified warning with
\* the (icao, alert_type, content) of such an active record counts it as
\* already active and inserts nothing for it.
C32_UnboundedRecordNeverRealarms ==
  /\ sweep.pc = "done"
     => \A i \in DOMAIN sweep.pre :
          ( /\ sweep.pre[i].status = "active"
            /\ sweep.pre[i].valid_from = Null /\ sweep.pre[i].valid_until = Null )
          => store[i] = sweep.pre[i]
  /\ \A c \in Calls :
       LET cr == call[c]
           met == {k \in DOMAIN cr.items :
                     /\ isAerodromeWarning(RawAlerts[cr.items[k]])
                     /\ \E i \in RowsOf(cr.pre, cr.icao, RawAlerts[cr.items[k]]) :
                          /\ cr.pre[i].status = "active"
                          /\ cr.pre[i].valid_from = Null
                          /\ cr.pre[i].valid_until = Null}
       IN  (cr.pc = "done" /\ cr.result.tag = "ok" /\ met # {})
           => /\ cr.result.alreadyActive >= 1
              /\ cr.result.inserted <= Classified(cr.items) - Cardinality(met)
              /\ RowsOf(store, cr.icao, RawAlerts[1]) = RowsOf(cr.pre, cr.icao, RawAlerts[1])

\* C33: after adding a favorite the alarm sound is played only if the register
\* call returned ok with inserted > 0 and audio is enabled; a failure result,
\* a success with inserted = 0, a rejected form or a failed favorites insert
\* never plays it.
C33_AlarmOnlyForNewWarnings ==
  fav.pc = "done"
  => /\ fav.alarm => /\ fav.outcome = "newWarning"
                     /\ call[1].pc = "done"
                     /\ call[1].result.tag = "ok"
                     /\ call[1].result.inserted > 0
                     /\ fav.audioEnabled
     /\ fav.outcome \in {"invalid", "insertError", "checkFailed", "noNew"} => ~fav.alarm

\* A favorite has been added with audio enabled for an aerodrome whose
\* response holds a classified warning; the check returned ok with inserted = 0
\* and the alarm stayed silent.
C33_Witness ==
  /\ fav.pc = "done" /\ fav.outcome = "noNew" /\ fav.audioEnabled
  /\ call[1].result.tag = "ok" /\ call[1].result.inserted = 0
  /\ Classified(call[1].items) >= 1
  /\ ~fav.alarm

\* C34: in the dashboard the alarm is triggered only when the top warning
\* text is non-empty and differs from the last text seen; a render with the
\* same text as before triggers nothing; with no warning the last-seen text is
\* cleared, so the text that comes after a time without warning triggers the
\* alarm, also when it is the text seen before.
C34_AlarmOncePerText ==
  [][/\ dash'.triggered
          => /\ TopMessage(dash'.statusData) # ""
             /\ TopMessage(dash'.statusData) # dash.lastMsgHash
     /\ TopMessage(dash'.statusData) = TopMessage(dash.statusData) => ~dash'.triggered
     /\ TopMessage(dash'.statusData) = "" => dash'.lastMsgHash = ""
     /\ (TopMessage(dash.statusData) = "" /\ TopMessage(dash'.statusData) # "")
          => dash'.triggered]_vars

\* A refetch of the countdown has brought a warning text not seen before and
\* the alarm has been triggered for it.
C34_Witness ==
  /\ mode = "dash"
  /\ dash.event = "done" /\ dash.triggered
  /\ dash.lastMsgHash = "AD WRNG SBGR TS"

C36_CountdownBounds ==
  /\ [](mode = "dash" => dash.nextCheck \in 0..CHECK_INTERVAL_SECONDS)
  /\ [][/\ dash'.event = "tick"
             => dash'.nextCheck = IF dash.nextCheck > 0 THEN dash.nextCheck - 1 ELSE 0
        /\ dash'.pending > dash.pending
             => /\ dash'.pending = dash.pending + 1
                /\ dash.nextCheck = 1 /\ dash'.nextCheck = 0
        /\ (dash.pending > 0 /\ dash.nextCheck = 0 /\ dash'.event \notin {"icao", "done"})
             => dash'.nextCheck = 0 /\ dash'.pending = dash.pending
        /\ dash'.event \in {"icao", "done"}
             => dash'.nextCheck = CHECK_INTERVAL_SECONDS]_vars

\* The countdown has reached 0, a refetch is pending and the interval has
\* fired again.
C36_Witness ==
  /\ mode = "dash"
  /\ dash.nextCheck = 0 /\ dash.pending = 1 /\ dash.event = "tick"

\* C36 as stated: while a refetch of the countdown is pending nextCheck is 0
\* and no second refetch has been started.
C36_ZeroWhilePending ==
  (mode = "dash" /\ dash.pending > 0) => (dash.nextCheck = 0 /\ dash.pending = 1)

\* The four-letter code an input normalizes to (trimmed, upper-cased, every
\* character that is no letter A-Z dropped), or "" when what is left is not
\* four letters.
NormalCode(input) ==
  CASE input \in {"SBMQ", "sbmq"} -> "SBMQ"
    [] input \in {"SBGR", " sbgr ", "sb1gr"} -> "SBGR"
    [] input \in {"SB", "", "SBGRX"} -> ""

\* C37: the active ICAO of the context is always four uppercase letters,
\* whatever was saved or typed; searchIcao with an input that does not
\* normalize to four letters returns false and leaves the active ICAO and the
\* saved value unchanged; with a valid input it returns true and sets both to
\* the normalized code.
C37_ActiveIcaoFourLetters ==
  /\ [](mode = "icao"
          => /\ Len(Chars[ctx.icao]) = 4
             /\ \A i \in 1..4 : \E k \in 1..26 : UpperLetters[k] = Chars[ctx.icao][i])
  /\ [][ctx'.event = "search"
          => IF NormalCode(ctx.inputIcao) = ""
             THEN /\ ctx'.returned = "false"
                  /\ ctx'.icao = ctx.icao /\ ctx'.saved = ctx.saved
             ELSE /\ ctx'.returned = "true"
                  /\ ctx'.icao = NormalCode(ctx.inputIcao)
                  /\ ctx'.saved = NormalCode(ctx.inputIcao)]_vars

\* searchIcao has refused a two-letter input: the active ICAO is the one taken
\* from a saved value in lower case, and the saved value is as it was.
C37_Witness ==
  /\ mode = "icao"
  /\ ctx.event = "search" /\ ctx.returned = "false"
  /\ ctx.inputIcao = "SB"
  /\ ctx.icao = "SBMQ" /\ ctx.saved = "sbmq"

\* C38: the rate limiter is a fixed-window counter per client. A client's
\* count never exceeds MAX_REQUESTS; a request is allowed and counted while
\* the count of the window is below MAX_REQUESTS and refused, without raising
\* the count, once it has reached it; the count starts again at 1, with a new
\* reset time, only on a client's first request or its first request after
\* the reset time (a request at the reset time itself is still in the window);
\* a request changes no other client's entry.
C38_FixedWindowPerClient ==
  /\ [](mode = "rate"
          => \A ip \in Clients :
               limiter.map[ip].some => limiter.map[ip].count \in 1..MAX_REQUESTS)
  /\ [][limiter'.event = "request"
          => LET ip == limiter'.ip
                 old == limiter.map[ip]
                 new == limiter'.map[ip]
                 inWindow == old.some /\ limiter.now <= old.resetTime
             IN  /\ \A other \in Clients \ {ip} : limiter'.map[other] = limiter.map[other]
                 /\ limiter'.allowed <=> (~inWindow \/ old.count < MAX_REQUESTS)
                 /\ ~limiter'.allowed => new = old
                 /\ (limiter'.allowed /\ inWindow)
                      => new.count = old.count + 1 /\ new.resetTime = old.resetTime
                 /\ ~inWindow
                      => new.count = 1 /\ new.resetTime = limiter.now + RATE_LIMIT_WINDOW]_vars

\* A client has used up its window and its next request, at the reset time
\* itself, has been refused, while the other client has an entry of its own.
C38_Witness ==
  /\ mode = "rate"
  /\ limiter.event = "request" /\ ~limiter.allowed
  /\ limiter.map[limiter.ip].count = MAX_REQUESTS
  /\ limiter.now = limiter.map[limiter.ip].resetTime
  /\ \E other \in Clients \ {limiter.ip} :
       limiter.map[other].some /\ limiter.map[other].count < MAX_REQUESTS

====
